---- MODULE Spec2Model ----
(***************************************************************************)
(* Gerrit -> Jira browser extension: the orchestration of one user action  *)
(* in the background service worker (service_worker.js), the FAB handlers  *)
(* of the content script (content_script.js) and the toolbar-click variant *)
(* of the service worker (handleGerritAction).                             *)
(*                                                                         *)
(* Strings the code inspects character by character (issue keys) are       *)
(* sequences of one-character strings.  Messages shown to the user are     *)
(* pairs <<text, n>>: text is an English gloss of the source string (one   *)
(* gloss per distinct source string), n is the status code interpolated    *)
(* into the fallback message and 0 elsewhere.                              *)
(***************************************************************************)
EXTENDS Integers, Sequences, FiniteSets, TLC

\* ------------------------------------------------------------------------
\* JavaScript values
\* ------------------------------------------------------------------------

\* null / undefined where the code expects a string
Null == <<"null">>

Str(s) == IF s = Null THEN << >> ELSE s

UpperLetters == {"A", "B", "F", "T"}
LowerLetters == {"a", "b", "f", "t"}
Digits == {"1", "2", "3"}

toUpperCaseChar(c) ==
  CASE c = "a" -> "A"
    [] c = "b" -> "B"
    [] c = "f" -> "F"
    [] c = "t" -> "T"
    [] OTHER -> c

toUpperCase(s) == [i \in 1..Len(s) |-> toUpperCaseChar(s[i])]

Whitespace == {" ", "\n"}

RECURSIVE trimStart(_)
trimStart(s) ==
  IF s # << >> /\ Head(s) \in Whitespace THEN trimStart(Tail(s)) ELSE s

RECURSIVE trimEnd(_)
trimEnd(s) ==
  IF s # << >> /\ s[Len(s)] \in Whitespace
  THEN trimEnd(SubSeq(s, 1, Len(s) - 1)) ELSE s

trim(s) == trimEnd(trimStart(s))

\* ------------------------------------------------------------------------
\* Domain validators
\* ------------------------------------------------------------------------

\* /^[A-Z][A-Z0-9]+-\d+$/ on a string; false for a non-string
isValidIssueKey(key) ==
  /\ key # Null
  /\ \E h \in 3..(Len(key) - 1) :
       /\ key[h] = "-"
       /\ key[1] \in UpperLetters
       /\ \A i \in 2..(h - 1) : key[i] \in UpperLetters \cup Digits
       /\ \A i \in (h + 1)..Len(key) : key[i] \in Digits

\* A URL is a record; scheme "" stands for text that `new URL` rejects.
Url(scheme, host, port, path) ==
  [scheme |-> scheme, host |-> host, port |-> port, path |-> path]

\* '' or undefined (falsy)
EmptyUrl == Url("", "", "", "")

\* text that is no URL
BadUrl == Url("", "", "", "not a url")

\* new URL(url).origin: scheme, host and the port unless it is the scheme's
\* default one
origin(u) ==
  <<u.scheme, u.host,
    IF (u.scheme = "http" /\ u.port = "80") \/ (u.scheme = "https" /\ u.port = "443")
    THEN "" ELSE u.port>>

GERRIT_ORIGINS ==
  {<<"http", "gerrit.thinkfree.com", "">>, <<"https", "gerrit.thinkfree.com", "">>}

\* a variant that does not look at the port
isGerritTabAnyPort(url) == url.scheme # "" /\ url.host = "gerrit.thinkfree.com"

isGerritTab(url) == url.scheme # "" /\ origin(url) \in GERRIT_ORIGINS

\* a variant that compares the host name only
isAllowedChangeUrlByHost(url) ==
  url.scheme # "" /\ url.host = "gerrit.thinkfree.com"

\* a variant that accepts every URL that parses
isAllowedChangeUrlAnyOrigin(url) == url.scheme # ""

isAllowedChangeUrl(url) == url.scheme # "" /\ origin(url) \in GERRIT_ORIGINS

\* ------------------------------------------------------------------------
\* User-visible messages
\* ------------------------------------------------------------------------

Msg(name) == <<name, 0>>

OpenOnGerritPage == Msg("open the popup on a Gerrit change page")
OriginNotAllowed == Msg("not an allowed Gerrit domain")
PageUnreadable == Msg("cannot read the page, reload it and retry")
NeedIssueKey == Msg("an issue key like TF-123 is needed, add jira: KEY to the title or commit message")
PageUrlNotAllowed == Msg("the current page URL is not an allowed Gerrit domain")
NotConfigured == Msg("Jira email/token not configured, set them on the options page")
NetworkError == Msg("network error, check the internet connection")
LookupFailed == Msg("issue lookup failed")
LinkFailed == Msg("adding the web link failed")
CommentFailed == Msg("creating the comment failed")

\* a variant with the fallback message only
mapJiraErrorFallbackOnly(status) == <<"Jira API error: HTTP", status>>

mapJiraError(status) ==
  CASE status = 400 -> Msg("bad request (400)")
    [] status = 401 -> Msg("authentication failed (401)")
    [] status = 403 -> Msg("no permission (403)")
    [] status = 404 -> Msg("target not found (404)")
    [] OTHER -> <<"Jira API error: HTTP", status>>

\* An error thrown inside a handler: code is "" when the error carries none,
\* status is 0 when the error carries none.
Err(code, status) == [code |-> code, status |-> status]

mapClientError(err, fallbackMessage) ==
  CASE err.code = "missing_credentials" -> NotConfigured
    [] err.code = "invalid_issue_key" -> NeedIssueKey
    [] err.code = "invalid_gerrit_url" -> PageUrlNotAllowed
    [] err.status # 0 -> mapJiraError(err.status)
    [] err.code = "network_error" -> NetworkError
    [] OTHER -> fallbackMessage

\* ------------------------------------------------------------------------
\* Comment text: template rendering and the document built from it
\* ------------------------------------------------------------------------

NL == "\n"

\* s has pat at position i (positions count from 1)
startsWithAt(s, pat, i) ==
  i + Len(pat) - 1 <= Len(s) /\ SubSeq(s, i, i + Len(pat) - 1) = pat

\* String.prototype.indexOf(pat, from): the first position, 0 when there is none
indexOf(s, pat, from) ==
  LET hits == {i \in from..(Len(s) + 1) : startsWithAt(s, pat, i)}
  IN IF hits = {} THEN 0 ELSE CHOOSE i \in hits : \A j \in hits : i <= j

includes(s, pat) == indexOf(s, pat, 1) # 0

\* the backtick and the apostrophe as characters of a string
Backtick == "backtick"
Apostrophe == "apostrophe"

\* the replacement text of String.prototype.replace for one match of a
\* pattern without groups: dollar followed by dollar, ampersand, backtick or
\* apostrophe is a pattern, all else is literal
RECURSIVE getSubstitution(_, _, _, _)
getSubstitution(replacement, matched, before, after) ==
  IF replacement = << >> THEN << >>
  ELSE IF Len(replacement) >= 2 /\ replacement[1] = "$"
          /\ replacement[2] \in {"$", "&", Backtick, Apostrophe}
  THEN (CASE replacement[2] = "$" -> <<"$">>
          [] replacement[2] = "&" -> matched
          [] replacement[2] = Backtick -> before
          [] OTHER -> after)
       \o getSubstitution(SubSeq(replacement, 3, Len(replacement)), matched, before, after)
  ELSE <<replacement[1]>> \o getSubstitution(Tail(replacement), matched, before, after)

RECURSIVE replaceFrom(_, _, _, _)
replaceFrom(s, pat, replacement, i) ==
  LET m == indexOf(s, pat, i)
  IN IF m = 0 THEN SubSeq(s, i, Len(s))
     ELSE SubSeq(s, i, m - 1)
          \o getSubstitution(replacement, pat, SubSeq(s, 1, m - 1),
                             SubSeq(s, m + Len(pat), Len(s)))
          \o replaceFrom(s, pat, replacement, m + Len(pat))

\* s.replace(/pat/g, replacement) for a literal pat
replace(s, pat, replacement) == replaceFrom(s, pat, replacement, 1)

\* the number of newline characters s starts with
RECURSIVE newlineRun(_)
newlineRun(s) == IF s # << >> /\ Head(s) = NL THEN 1 + newlineRun(Tail(s)) ELSE 0

\* a variant that keeps every newline
keepNewlines(s) == s

\* s.replace(/\n{3,}/g, "\n\n")
RECURSIVE collapseNewlines(_)
collapseNewlines(s) ==
  LET m == indexOf(s, <<NL, NL, NL>>, 1)
  IN IF m = 0 THEN s
     ELSE SubSeq(s, 1, m - 1) \o <<NL, NL>>
          \o collapseNewlines(SubSeq(s, m + newlineRun(SubSeq(s, m, Len(s))), Len(s)))

Placeholder ==
  [title |-> <<"{", "t", "i", "t", "l", "e", "}">>,
   body |-> <<"{", "b", "o", "d", "y", "}">>,
   branch |-> <<"{", "b", "r", "a", "n", "c", "h", "}">>,
   change_num |-> <<"{", "c", "h", "a", "n", "g", "e", "_", "n", "u", "m", "}">>,
   project |-> <<"{", "p", "r", "o", "j", "e", "c", "t", "}">>,
   owner |-> <<"{", "o", "w", "n", "e", "r", "}">>,
   date |-> <<"{", "d", "a", "t", "e", "}">>,
   url |-> <<"{", "u", "r", "l", "}">>]

renderTemplate(template, v) ==
  LET r1 == replace(template, Placeholder.title, Str(v.title))
      r2 == replace(r1, Placeholder.body, Str(v.body))
      r3 == replace(r2, Placeholder.branch, Str(v.branch))
      r4 == replace(r3, Placeholder.change_num, Str(v.changeNum))
      r5 == replace(r4, Placeholder.project, Str(v.project))
      r6 == replace(r5, Placeholder.owner, Str(v.owner))
      r7 == replace(r6, Placeholder.date, Str(v.date))
      r8 == replace(r7, Placeholder.url, Str(v.url))
  IN trim(collapseNewlines(r8))

TitleLabel == <<"T", "i", "t", "l", "e", ":", " ">>
GerritLabel == <<"G", "e", "r", "r", "i", "t", ":", " ">>

ensureCommentMinimum(text, v) ==
  LET out0 == trim(Str(text))
      out1 == IF Str(v.title) # << >> /\ ~includes(out0, v.title)
              THEN out0 \o <<NL, NL>> \o TitleLabel \o v.title ELSE out0
      out2 == IF Str(v.url) # << >> /\ ~includes(out1, v.url)
              THEN out1 \o <<NL>> \o GerritLabel \o v.url ELSE out1
  IN trim(out2)

\* the nodes of a paragraph; link is Null for a node without a link mark
TextNode(text) == [type |-> "text", text |-> text, link |-> Null]
LinkNode(url) == [type |-> "text", text |-> url, link |-> url]
HardBreak == [type |-> "hardBreak", text |-> << >>, link |-> Null]
Paragraph(content) == [type |-> "paragraph", content |-> content]
Doc(content) == [type |-> "doc", version |-> 1, content |-> content]

\* the while loop of inlineNodesForLine from position cursor on
RECURSIVE scanLine(_, _, _)
scanLine(line, linkUrl, cursor) ==
  IF cursor > Len(line) THEN << >>
  ELSE LET idx == indexOf(line, linkUrl, cursor)
       IN IF idx = 0
          THEN <<TextNode(SubSeq(line, cursor, Len(line)))>>
          ELSE (IF idx > cursor
                THEN <<TextNode(SubSeq(line, cursor, idx - 1))>> ELSE << >>)
               \o <<LinkNode(linkUrl)>>
               \o scanLine(line, linkUrl, idx + Len(linkUrl))

\* a variant that links the first occurrence only
inlineNodesFirstOnly(line, linkUrl) ==
  IF line = << >> THEN << >>
  ELSE IF Str(linkUrl) = << >> \/ ~includes(line, linkUrl) THEN <<TextNode(line)>>
  ELSE LET idx == indexOf(line, linkUrl, 1)
           rest == SubSeq(line, idx + Len(linkUrl), Len(line))
       IN (IF idx > 1 THEN <<TextNode(SubSeq(line, 1, idx - 1))>> ELSE << >>)
          \o <<LinkNode(linkUrl)>>
          \o (IF rest # << >> THEN <<TextNode(rest)>> ELSE << >>)

inlineNodesForLine(line, linkUrl) ==
  IF line = << >> THEN << >>
  ELSE IF Str(linkUrl) = << >> \/ ~includes(line, linkUrl) THEN <<TextNode(line)>>
  ELSE scanLine(line, linkUrl, 1)

\* s.split("\n")
RECURSIVE splitLines(_)
splitLines(s) ==
  LET i == indexOf(s, <<NL>>, 1)
  IN IF i = 0 THEN <<s>>
     ELSE <<SubSeq(s, 1, i - 1)>> \o splitLines(SubSeq(s, i + 1, Len(s)))

\* s.split(/\n\n+/)
RECURSIVE splitParagraphs(_)
splitParagraphs(s) ==
  LET i == indexOf(s, <<NL, NL>>, 1)
  IN IF i = 0 THEN <<s>>
     ELSE LET n == newlineRun(SubSeq(s, i, Len(s)))
          IN <<SubSeq(s, 1, i - 1)>> \o splitParagraphs(SubSeq(s, i + n, Len(s)))

RECURSIVE lineNodes(_, _, _)
lineNodes(lines, linkUrl, i) ==
  IF i > Len(lines) THEN << >>
  ELSE (IF i > 1 THEN <<HardBreak>> ELSE << >>)
       \o inlineNodesForLine(lines[i], linkUrl)
       \o lineNodes(lines, linkUrl, i + 1)

buildAdfParagraph(paraText, linkUrl) ==
  Paragraph(lineNodes(splitLines(paraText), linkUrl, 1))

\* a variant without the paragraph added to an empty document
textToAdfNoFallback(text, linkUrl) ==
  LET parts == splitParagraphs(text)
      built == [i \in 1..Len(parts) |-> buildAdfParagraph(parts[i], linkUrl)]
      NonEmpty(p) == p.content # << >>
  IN Doc(SelectSeq(built, NonEmpty))

textToAdf(text, linkUrl) ==
  LET parts == splitParagraphs(text)
      built == [i \in 1..Len(parts) |-> buildAdfParagraph(parts[i], linkUrl)]
      NonEmpty(p) == p.content # << >>
      paragraphs == SelectSeq(built, NonEmpty)
  IN Doc(IF paragraphs = << >>
         THEN <<Paragraph(<<TextNode(<< >>)>>)>>
         ELSE paragraphs)

\* ------------------------------------------------------------------------
\* Inputs of the environment: what the page, the tab, the storage, the
\* callers and Jira may present
\* ------------------------------------------------------------------------

KeyTF1 == <<"T", "F", "-", "1">>
KeyAB2 == <<"A", "B", "-", "2">>
KeyLower == <<"t", "f", "-", "1">>
KeyPadded == <<" ", "t", "f", "-", "1", " ">>
KeyNoHyphen == <<"T", "F", "1">>
KeyShort == <<"T", "-", "1">>
KeyBlank == <<" ">>

\* issueKeyOverride / issueKey of a runtime message
KeyArgs == {Null, << >>, KeyBlank, KeyTF1, KeyLower, KeyPadded, KeyNoHyphen, KeyShort}

\* issueKey of the content script's answer
ReplyKeys == {Null, KeyAB2, KeyLower}

GerritHttp == Url("http", "gerrit.thinkfree.com", "", "/c/p/+/1")
GerritHttps == Url("https", "gerrit.thinkfree.com", "443", "/c/p/+/1")
GerritPort == Url("http", "gerrit.thinkfree.com", "8080", "/c/p/+/1")
EvilUrl == Url("https", "evil.com", "", "/http://gerrit.thinkfree.com")

Tab(id, url) == [id |-> id, url |-> url]
NoTab == Tab(0, EmptyUrl)
Tabs == {NoTab, Tab(1, EmptyUrl), Tab(1, GerritHttp), Tab(1, GerritHttps), Tab(1, EvilUrl)}

Reply(issueKey, gerritUrl) == [defined |-> TRUE, issueKey |-> issueKey, gerritUrl |-> gerritUrl]
NoReply == [defined |-> FALSE, issueKey |-> Null, gerritUrl |-> EmptyUrl]
ReplyUrls == {EmptyUrl, BadUrl, GerritHttp, GerritPort, EvilUrl}
Replies == {NoReply} \cup {Reply(k, u) : k \in ReplyKeys, u \in ReplyUrls}

\* chrome.storage.local: "undefined" is a key never set
Storages ==
  { [jiraEmail |-> "me@x.com", jiraToken |-> "tok"],
    [jiraEmail |-> "undefined", jiraToken |-> "undefined"],
    [jiraEmail |-> "me@x.com", jiraToken |-> ""],
    [jiraEmail |-> "", jiraToken |-> "tok"] }

Truthy(s) == s \notin {"undefined", ""}

Statuses == {200, 201, 204, 400, 401, 403, 404, 500}
Bodies == {"json", "not json"}

Response(status, body) == [status |-> status, body |-> body]
NoResponse == Response(0, "")

\* ------------------------------------------------------------------------
\* State
\* ------------------------------------------------------------------------

VARIABLES
  pc,        \* position of the action in flight, "Idle" when none
  handler,   \* the handler that runs
  caller,    \* who started it: "popup", "fab", "toolbar"
  arg,       \* the message's arguments
  storage,   \* chrome.storage.local
  tab,       \* the active tab found
  reply,     \* the content script's answer to EXTRACT_CONTEXT / EXTRACT_INFO
  context,   \* safeContext
  issueKey,  \* the key handed to the Jira client
  requests,  \* the HTTP requests issued
  response,  \* the HTTP response received
  result,    \* what the handler returns
  trace,     \* the calls made so far by the action, in order
  outcomes,  \* what the user got to see, in order
  fabEnabled \* chrome.storage.local's fabEnabled flag

VARIABLES
  retry,     \* the content script's extractContextWithRetry call and its page
  text,      \* a call of the comment-text functions: its inputs and results
  pure,      \* a call of a validator or an extraction function
  popup,     \* the popup page, the page it looks at and its messages
  fab        \* the content script's floating button and its storage flag

auxVars == <<retry, text, pure, popup, fab>>

mainVars == <<pc, handler, caller, arg, storage, tab, reply, context, issueKey,
              requests, response, result, trace, outcomes, fabEnabled>>

vars == <<pc, handler, caller, arg, storage, tab, reply, context, issueKey,
          requests, response, result, trace, outcomes, fabEnabled, retry, text,
          pure, popup, fab>>

Arg(key, email, token, enabled) ==
  [key |-> key, email |-> email, token |-> token, enabled |-> enabled]
NoArg == Arg(Null, "", "", FALSE)

Context(key, url) == [issueKey |-> key, gerritUrl |-> url]
NoContext == Context(Null, EmptyUrl)

\* the issue object of a lookup answer; NoIssue when the answer carries none
Issue(summary, status, assignee) ==
  [summary |-> summary, status |-> status, assignee |-> assignee]
NoIssue == Issue("undefined", "undefined", "undefined")

Result(ok, message, key, status, networkError) ==
  [ok |-> ok, message |-> message, issueKey |-> key, status |-> status,
   networkError |-> networkError, issue |-> NoIssue]
NoMsg == Msg("")
NoResult == Result(FALSE, NoMsg, Null, 0, FALSE)
Failure(message) == Result(FALSE, message, Null, 0, FALSE)
Success(key) == Result(TRUE, NoMsg, key, 0, FALSE)
Found(issue) == [Success(Null) EXCEPT !.issue = issue]

Count(seq, e) == Cardinality({i \in 1..Len(seq) : seq[i] = e})

\* ------------------------------------------------------------------------
\* The content script's extractContextWithRetry
\* ------------------------------------------------------------------------

\* setInterval(..., 120)
PollIntervalMs == 120
\* extractContextWithRetry(timeoutMs = 1800)
DefaultTimeoutMs == 1800
\* the clock advances in steps of this many milliseconds
QuantumMs == 60
\* how long past the deadline the clock may run before the timers fire
MaxLateMs == 120

TimeoutsMs == {0, 60, 120, 300, DefaultTimeoutMs}

\* what extractContext() finds on the page: its issueKey
PageStates == {Null, KeyAB2, KeyTF1}

Retry(page, root) ==
  [phase |-> "idle",        \* "idle", "pending" or "resolved"
   page |-> page,           \* the issue key extractContext() finds now
   root |-> root,           \* whether document.documentElement exists
   timeoutMs |-> 0,
   now |-> 0,               \* Date.now() - startedAt
   polls |-> 0,             \* firings of the interval so far
   done |-> FALSE,
   pollTimer |-> FALSE,     \* the interval is set
   deadlineTimer |-> FALSE, \* the timeout is set
   observing |-> FALSE,     \* the observer is connected
   queued |-> FALSE,        \* a mutation notification awaits delivery
   resolves |-> 0,          \* calls of resolve
   cleanups |-> 0,          \* times the teardown ran
   value |-> Null,          \* the issue key of the context resolved with
   resolvedAt |-> 0,        \* the clock when it resolved
   first |-> FALSE]         \* resolved by the first extraction

NoRetry == Retry(Null, TRUE)

hasIssueKey(key) == key # Null /\ key # << >>

\* ------------------------------------------------------------------------
\* Inputs of the comment-text functions
\* ------------------------------------------------------------------------

\* the longest template, in pieces
MaxPieces == 3

Pieces ==
  { Placeholder.title, Placeholder.body, Placeholder.url, Placeholder.owner, <<"{", "f", "o", "o", "}">>,
    <<NL>>, <<" ">>, <<"a">>, <<"u">> }

RECURSIVE Flatten(_)
Flatten(ps) == IF ps = << >> THEN << >> ELSE Head(ps) \o Flatten(Tail(ps))

\* {title}, blank line, {body}, blank line, Gerrit: {url}
ExampleTemplate ==
  Placeholder.title \o <<NL, NL>> \o Placeholder.body \o <<NL, NL>> \o GerritLabel \o Placeholder.url

\* DEFAULT_TEMPLATE
DefaultTemplate ==
  Placeholder.title \o <<NL, NL>> \o Placeholder.body \o <<NL, NL>>
  \o <<"B", "r", ":", " ">> \o Placeholder.branch \o <<NL>>
  \o <<"A", "t", ":", " ">> \o Placeholder.date \o <<NL>>
  \o GerritLabel \o Placeholder.url

Templates ==
  {Flatten(ps) : ps \in UNION {[1..n -> Pieces] : n \in 0..MaxPieces}}
    \cup {ExampleTemplate}

Vars(title, body, owner, url) ==
  [title |-> title, body |-> body, branch |-> <<"m">>, changeNum |-> <<"7">>,
   project |-> <<"p">>, owner |-> owner, date |-> <<"d">>, url |-> url]

VarMaps ==
  { Vars(<<"T">>, <<"b">>, <<"o">>, <<"u">>),
    Vars(<<"T">>, << >>, Null, <<"u">>),
    Vars(<< >>, << >>, << >>, << >>),
    Vars(<<"a">>, <<"b", NL, NL, NL, "b">>, <<"o">>, <<"u", "u">>),
    Vars(<<"T", "$", "&">>, <<"b">>, <<"o">>, <<"u">>),
    Vars(<<"T", "$", "$">>, <<"b">>, <<"o">>, <<"u">>),
    Vars(Placeholder.url, <<"b">>, <<"o">>, <<"u">>),
    \* a subject that slice(0, 500) cut after a space
    Vars(<<"T", " ">>, <<"b">>, <<" ", "o">>, <<"u">>) }

Text(template, v) ==
  [stage |-> "input",     \* "input", or the function that was applied
   template |-> template, \* the template, the text or the line given
   v |-> v,               \* the variable mapping; v.url is the link URL
   rendered |-> << >>,    \* what renderTemplate returned
   safeText |-> << >>,    \* what ensureCommentMinimum returned
   doc |-> Doc(<< >>),    \* what textToAdf returned
   nodes |-> << >>]       \* what inlineNodesForLine returned

NoText == Text(<< >>, Vars(<< >>, << >>, << >>, << >>))

NoTitle == <<"(", "n", "o", " ", "t", "i", "t", "l", "e", ")">>

MainInit ==
  /\ pc = "Idle"
  /\ handler = "none"
  /\ caller = "none"
  /\ arg = NoArg
  /\ storage \in Storages
  /\ tab = NoTab
  /\ reply = NoReply
  /\ context = NoContext
  /\ issueKey = Null
  /\ requests = << >>
  /\ response = NoResponse
  /\ result = NoResult
  /\ trace = << >>
  /\ outcomes = << >>
  /\ fabEnabled = "undefined"

\* no call of a pure function, no popup open, no content script loaded
NoPure == [fn |-> "none"]
NoPopup == [phase |-> "closed"]
NoFab == [phase |-> "unloaded"]

Init ==
  /\ MainInit
  /\ retry = NoRetry
  /\ text = NoText
  /\ pure = NoPure
  /\ popup = NoPopup
  /\ fab = NoFab

\* ------------------------------------------------------------------------
\* service_worker.js: the message handlers
\* ------------------------------------------------------------------------

ContextHandlers ==
  {"handlePopupGetContext", "handlePopupAddRemoteLink", "handlePopupAddComment"}
JiraHandlers ==
  {"handlePopupGetIssue", "handlePopupAddRemoteLink", "handlePopupAddComment"}
Handlers ==
  ContextHandlers \cup JiraHandlers \cup {"handleTestConnection", "handlePopupSetFabEnabled"}

\* the arguments a runtime message of each type may carry
Args(h) ==
  CASE h = "handleTestConnection" ->
         {Arg(Null, e, t, FALSE) : e \in {"", "me@x.com"}, t \in {"undefined", "tok"}}
    [] h = "handlePopupSetFabEnabled" -> {Arg(Null, "", "", b) : b \in BOOLEAN}
    [] h = "handlePopupGetContext" -> {NoArg}
    [] OTHER -> {Arg(k, "", "", FALSE) : k \in KeyArgs}

\* the listener's dispatch: where each handler starts
entry(h) ==
  CASE h = "handleTestConnection" -> "handleTestConnection"
    [] h = "handlePopupSetFabEnabled" -> "setFabEnabled"
    [] h = "handlePopupGetIssue" -> "clientCheckKey"
    [] OTHER -> "getActiveTab"

fallbackMessage(h) ==
  CASE h = "handlePopupGetIssue" -> LookupFailed
    [] h = "handlePopupAddRemoteLink" -> LinkFailed
    [] OTHER -> CommentFailed

\* the catch block of a handlePopup* handler
handlerCatch(h, err) == Failure(mapClientError(err, fallbackMessage(h)))

\* a variant that recovers after every failed send
sendToTabWithRetries(attempt, ok) ==
  IF ok THEN "safeContext" ELSE "injectContentScripts"

\* sendToTabWithRecovery: where the n-th send leads, by its success
sendToTabWithRecovery(attempt, ok) ==
  CASE ok -> "safeContext"
    [] attempt = 1 -> "injectContentScripts"
    [] OTHER -> "thrown"

\* a variant without the try block: the error leaves the handler
tryNothing(next) == next

\* the try block of getActiveGerritContext: an error thrown under it ends
\* in its catch, which returns
tryGetActiveGerritContext(next) ==
  IF next = "thrown" THEN "sendResponse" ELSE next

safeContext(rep, tabUrl) ==
  Context(IF isValidIssueKey(Str(rep.issueKey)) THEN rep.issueKey ELSE Null,
          IF rep.gerritUrl # EmptyUrl THEN rep.gerritUrl ELSE tabUrl)

\* a variant that validates the override without upper-casing it
selectIssueKeyNoUpper(issueKeyOverride, contextKey) ==
  LET overrideKey == trim(Str(issueKeyOverride))
  IN IF isValidIssueKey(overrideKey) THEN overrideKey ELSE contextKey

selectIssueKey(issueKeyOverride, contextKey) ==
  LET overrideKey == toUpperCase(trim(Str(issueKeyOverride)))
  IN IF isValidIssueKey(overrideKey) THEN overrideKey ELSE contextKey

\* a variant that throws only when both values are missing
credentialsMissingBoth(st) == ~Truthy(st.jiraEmail) /\ ~Truthy(st.jiraToken)

\* jiraClient.getCredentials: the condition under which it throws
credentialsMissing(st) == ~Truthy(st.jiraEmail) \/ ~Truthy(st.jiraToken)

\* a variant that takes every 2xx status as success
isSuccessStatusAny2xx(h, status) == status \in {200, 201, 204}

isSuccessStatus(h, status) ==
  CASE h = "handlePopupGetIssue" -> status = 200
    [] h = "handlePopupAddRemoteLink" -> status \in {200, 201}
    [] OTHER -> status = 201

jsonParses(body) == body = "json"

\* jiraClient.getIssue: the fields taken from the parsed body
issueOf(body) == Issue("summary of " \o body, "status of " \o body, "assignee of " \o body)

\* what building the request body calls
payloadCalls(h) ==
  IF h = "handlePopupAddRemoteLink"
  THEN <<"buildRemoteLinkPayload">>
  ELSE <<"loadStorageData", "renderTemplate", "ensureCommentMinimum", "textToAdf">>

endpoint(h) ==
  CASE h = "handlePopupGetIssue" -> "GET /rest/api/3/issue/{key}"
    [] h = "handlePopupAddRemoteLink" -> "POST /rest/api/3/issue/{key}/remotelink"
    [] OTHER -> "POST /rest/api/3/issue/{key}/comment"

Request(ep, key, url) == [endpoint |-> ep, key |-> key, url |-> url]

Outcome(kind, type, message, key) ==
  [kind |-> kind, type |-> type, message |-> message, key |-> key]

\* options.js: the status line shown for a TEST_CONNECTION answer
optionsStatus(res) ==
  CASE res.networkError -> Msg("network error: check the internet connection")
    [] res.status = 200 -> Msg("connected (200 OK)")
    [] res.status = 401 -> Msg("authentication failed (401): check email or token")
    [] res.status = 403 -> Msg("insufficient permission (403)")
    [] OTHER -> <<"unexpected response code", res.status>>

ResetAction ==
  /\ tab' = NoTab
  /\ reply' = NoReply
  /\ context' = NoContext
  /\ requests' = << >>
  /\ response' = NoResponse
  /\ result' = NoResult
  /\ trace' = << >>
  /\ outcomes' = << >>
  /\ UNCHANGED <<storage, fabEnabled>>

\* chrome.runtime.onMessage listener: a message from the popup or another
\* extension page is dispatched to its handler
onMessage ==
  /\ pc = "Idle"
  /\ \E h \in Handlers :
       \E a \in Args(h) :
         /\ handler' = h
         /\ caller' = "popup"
         /\ arg' = a
         /\ pc' = entry(h)
         /\ issueKey' = IF h = "handlePopupGetIssue" THEN trim(Str(a.key)) ELSE Null
  /\ ResetAction
  /\ UNCHANGED auxVars

\* getActiveGerritContext: await getActiveTab() and the tab check
getActiveTab ==
  /\ pc = "getActiveTab"
  /\ \E t \in Tabs :
       /\ tab' = t
       /\ IF t.id = 0 \/ t.url = EmptyUrl \/ ~isGerritTab(t.url)
          THEN /\ result' = Failure(OpenOnGerritPage)
               /\ pc' = "sendResponse"
          ELSE /\ pc' = "sendToTab1"
               /\ UNCHANGED result
  /\ UNCHANGED <<handler, caller, arg, storage, reply, context, issueKey,
                 requests, response, trace, outcomes, fabEnabled>>
  /\ UNCHANGED auxVars

\* one sendToTab of EXTRACT_CONTEXT: answered, or chrome.runtime.lastError
sendToTab(attempt) ==
  /\ pc = IF attempt = 1 THEN "sendToTab1" ELSE "sendToTab2"
  /\ \E ok \in BOOLEAN :
       LET next == tryGetActiveGerritContext(sendToTabWithRecovery(attempt, ok))
       IN /\ pc' = next
          /\ trace' = Append(trace, IF ok THEN "sendToTab:ok" ELSE "sendToTab:failed")
          /\ IF ok THEN \E r \in Replies : reply' = r ELSE UNCHANGED reply
          /\ result' = IF next = "sendResponse" THEN Failure(PageUnreadable) ELSE result
  /\ UNCHANGED <<handler, caller, arg, storage, tab, context, issueKey,
                 requests, response, outcomes, fabEnabled>>
  /\ UNCHANGED auxVars

sendToTabFirst == sendToTab(1)

sendToTabSecond == sendToTab(2)

injectContentScripts ==
  /\ pc = "injectContentScripts"
  /\ \E ok \in BOOLEAN :
       LET next == tryGetActiveGerritContext(IF ok THEN "sendToTab2" ELSE "thrown")
       IN /\ pc' = next
          /\ trace' = Append(trace, IF ok THEN "inject:ok" ELSE "inject:failed")
          /\ result' = IF next = "sendResponse" THEN Failure(PageUnreadable) ELSE result
  /\ UNCHANGED <<handler, caller, arg, storage, tab, reply, context, issueKey,
                 requests, response, outcomes, fabEnabled>>
  /\ UNCHANGED auxVars

\* getActiveGerritContext after the answer: safeContext and the origin check,
\* then handlePopupGetContext returns the context
buildSafeContext ==
  /\ pc = "safeContext"
  /\ LET sc == safeContext(reply, tab.url)
     IN /\ context' = sc
        /\ IF ~isAllowedChangeUrl(sc.gerritUrl)
           THEN /\ result' = Failure(OriginNotAllowed)
                /\ pc' = "sendResponse"
           ELSE IF handler = "handlePopupGetContext"
           THEN /\ result' = Success(Null)
                /\ pc' = "sendResponse"
           ELSE /\ pc' = "selectIssueKey"
                /\ UNCHANGED result
  /\ UNCHANGED <<handler, caller, arg, storage, tab, reply, issueKey,
                 requests, response, trace, outcomes, fabEnabled>>
  /\ UNCHANGED auxVars

\* handlePopupAddRemoteLink / handlePopupAddComment: the key and URL checks
chooseIssueKey ==
  /\ pc = "selectIssueKey"
  /\ LET key == selectIssueKey(arg.key, context.issueKey)
     IN /\ issueKey' = key
        /\ IF key = Null \/ key = << >>
           THEN /\ result' = Failure(NeedIssueKey)
                /\ pc' = "sendResponse"
           ELSE IF ~isAllowedChangeUrl(context.gerritUrl)
           THEN /\ result' = Failure(PageUrlNotAllowed)
                /\ pc' = "sendResponse"
           ELSE /\ pc' = "buildPayload"
                /\ UNCHANGED result
  /\ UNCHANGED <<handler, caller, arg, storage, tab, reply, context,
                 requests, response, trace, outcomes, fabEnabled>>
  /\ UNCHANGED auxVars

\* buildRemoteLinkPayload(context) / await buildCommentAdf(context)
buildPayload ==
  /\ pc = "buildPayload"
  /\ trace' = trace \o payloadCalls(handler)
  /\ pc' = "clientCheckKey"
  /\ UNCHANGED <<handler, caller, arg, storage, tab, reply, context, issueKey,
                 requests, response, result, outcomes, fabEnabled>>
  /\ UNCHANGED auxVars

\* jiraClient.getIssue / addRemoteLink / addComment: the key check
clientCheckKey ==
  /\ pc = "clientCheckKey"
  /\ IF ~isValidIssueKey(issueKey)
     THEN /\ result' = handlerCatch(handler, Err("invalid_issue_key", 0))
          /\ pc' = "sendResponse"
     ELSE /\ pc' = "getCredentials"
          /\ UNCHANGED result
  /\ UNCHANGED <<handler, caller, arg, storage, tab, reply, context, issueKey,
                 requests, response, trace, outcomes, fabEnabled>>
  /\ UNCHANGED auxVars

\* jiraClient.fetch: await this.getCredentials()
getCredentials ==
  /\ pc = "getCredentials"
  /\ trace' = trace \o <<"loadStorageData", "getCredentials">>
  /\ IF credentialsMissing(storage)
     THEN /\ result' = handlerCatch(handler, Err("missing_credentials", 0))
          /\ pc' = "sendResponse"
     ELSE /\ pc' = "fetch"
          /\ UNCHANGED result
  /\ UNCHANGED <<handler, caller, arg, storage, tab, reply, context, issueKey,
                 requests, response, outcomes, fabEnabled>>
  /\ UNCHANGED auxVars

\* jiraClient.fetch: the request; it is answered or the fetch rejects
fetch ==
  /\ pc = "fetch"
  /\ trace' = Append(trace, "fetch")
  /\ requests' = Append(requests, Request(endpoint(handler), issueKey, context.gerritUrl))
  /\ \/ /\ result' = handlerCatch(handler, Err("network_error", 0))
        /\ pc' = "sendResponse"
        /\ UNCHANGED response
     \/ /\ \E st \in Statuses : \E b \in Bodies : response' = Response(st, b)
        /\ pc' = "checkStatus"
        /\ UNCHANGED result
  /\ UNCHANGED <<handler, caller, arg, storage, tab, reply, context, issueKey,
                 outcomes, fabEnabled>>
  /\ UNCHANGED auxVars

\* jiraClient.*: the status check, and resp.json() of getIssue
checkStatus ==
  /\ pc = "checkStatus"
  /\ result' =
       IF ~isSuccessStatus(handler, response.status)
       THEN handlerCatch(handler, Err("", response.status))
       ELSE IF handler = "handlePopupGetIssue" /\ ~jsonParses(response.body)
       THEN handlerCatch(handler, Err("", 0))
       ELSE IF handler = "handlePopupGetIssue"
       THEN Found(issueOf(response.body))
       ELSE Success(issueKey)
  /\ pc' = "sendResponse"
  /\ UNCHANGED <<handler, caller, arg, storage, tab, reply, context, issueKey,
                 requests, response, trace, outcomes, fabEnabled>>
  /\ UNCHANGED auxVars

\* handleTestConnection: the check of its arguments
handleTestConnection ==
  /\ pc = "handleTestConnection"
  /\ IF ~Truthy(arg.email) \/ ~Truthy(arg.token)
     THEN /\ result' = Result(FALSE, NoMsg, Null, 401, FALSE)
          /\ pc' = "sendResponse"
     ELSE /\ pc' = "testFetch"
          /\ UNCHANGED result
  /\ UNCHANGED <<handler, caller, arg, storage, tab, reply, context, issueKey,
                 requests, response, trace, outcomes, fabEnabled>>
  /\ UNCHANGED auxVars

\* handleTestConnection: GET /rest/api/3/myself
testFetch ==
  /\ pc = "testFetch"
  /\ trace' = Append(trace, "fetch")
  /\ requests' = Append(requests, Request("GET /rest/api/3/myself", Null, EmptyUrl))
  /\ \/ /\ result' = Result(FALSE, NoMsg, Null, 0, TRUE)
        /\ UNCHANGED response
     \/ \E st \in Statuses :
          /\ response' = Response(st, "json")
          /\ result' = Result(FALSE, NoMsg, Null, st, FALSE)
  /\ pc' = "sendResponse"
  /\ UNCHANGED <<handler, caller, arg, storage, tab, reply, context, issueKey,
                 outcomes, fabEnabled>>
  /\ UNCHANGED auxVars

\* handlePopupSetFabEnabled: await setFabEnabled(enabled)
setFabEnabled ==
  /\ pc = "setFabEnabled"
  /\ fabEnabled' = IF arg.enabled THEN "true" ELSE "false"
  /\ pc' = "fabGetTab"
  /\ UNCHANGED <<handler, caller, arg, storage, tab, reply, context, issueKey,
                 requests, response, result, trace, outcomes>>
  /\ UNCHANGED auxVars

fabGetTab ==
  /\ pc = "fabGetTab"
  /\ \E t \in Tabs :
       /\ tab' = t
       /\ IF t.id = 0 \/ t.url = EmptyUrl \/ ~isGerritTab(t.url)
          THEN /\ result' = Result(TRUE, Msg("FAB setting saved, applied on Gerrit tabs"),
                                   Null, 0, FALSE)
               /\ pc' = "sendResponse"
          ELSE /\ pc' = "fabSendToTab"
               /\ UNCHANGED result
  /\ UNCHANGED <<handler, caller, arg, storage, reply, context, issueKey,
                 requests, response, trace, outcomes, fabEnabled>>
  /\ UNCHANGED auxVars

\* handlePopupSetFabEnabled: sendToTab of FAB_ENABLE / FAB_DISABLE under try
fabSendToTab ==
  /\ pc = "fabSendToTab"
  /\ \E ok \in BOOLEAN :
       /\ trace' = Append(trace, IF ok THEN "sendToTab:ok" ELSE "sendToTab:failed")
       /\ result' = IF ok
                    THEN Success(Null)
                    ELSE Result(TRUE, Msg("FAB setting saved, applied on page reload"),
                                Null, 0, FALSE)
  /\ pc' = "sendResponse"
  /\ UNCHANGED <<handler, caller, arg, storage, tab, reply, context, issueKey,
                 requests, response, outcomes, fabEnabled>>
  /\ UNCHANGED auxVars

\* handler(...).then(sendResponse)
sendResponse ==
  /\ pc = "sendResponse"
  /\ trace' = Append(trace, "sendResponse")
  /\ IF caller = "popup"
     THEN /\ outcomes' = Append(outcomes,
               Outcome("response",
                       IF result.ok THEN "ok" ELSE "error",
                       IF handler = "handleTestConnection"
                       THEN optionsStatus(result) ELSE result.message,
                       result.issueKey))
          /\ pc' = "Idle"
     ELSE /\ pc' = "fabReceive"
          /\ UNCHANGED outcomes
  /\ UNCHANGED <<handler, caller, arg, storage, tab, reply, context, issueKey,
                 requests, response, result, fabEnabled>>
  /\ UNCHANGED auxVars

ServiceWorkerStep ==
  \/ getActiveTab
  \/ sendToTabFirst
  \/ injectContentScripts
  \/ sendToTabSecond
  \/ buildSafeContext
  \/ chooseIssueKey
  \/ buildPayload
  \/ clientCheckKey
  \/ getCredentials
  \/ fetch
  \/ checkStatus
  \/ handleTestConnection
  \/ testFetch
  \/ setFabEnabled
  \/ fabGetTab
  \/ fabSendToTab
  \/ sendResponse

\* ------------------------------------------------------------------------
\* content_script.js: the FAB handlers
\* ------------------------------------------------------------------------

FabHandlers == {"handleFabIssueLookup", "handleFabAddRemoteLink", "handleFabAddComment"}

\* what extractContext().issueKey can be: null or a normalised key
PageKeys == {Null, KeyAB2}

fabTarget(f) ==
  CASE f = "handleFabIssueLookup" -> "handlePopupGetIssue"
    [] f = "handleFabAddRemoteLink" -> "handlePopupAddRemoteLink"
    [] OTHER -> "handlePopupAddComment"

fabFallback(f) ==
  CASE f = "handleFabIssueLookup" -> LookupFailed
    [] f = "handleFabAddRemoteLink" -> LinkFailed
    [] OTHER -> CommentFailed

RequestError == Msg("an error occurred during the request")
NeedIssueKeyFab == Msg("an issue key like TF-123 is needed, check the title or jira: KEY")

Toast(type, message, key) == Outcome("toast", type, message, key)

\* a click on one of the three FAB menu buttons, up to the first await
fabClick ==
  /\ pc = "Idle"
  /\ \E f \in FabHandlers :
       \E k \in PageKeys :
         /\ caller' = f
         /\ IF f = "handleFabIssueLookup" /\ k = Null
            THEN /\ handler' = "none"
                 /\ arg' = NoArg
                 /\ outcomes' = <<Toast("warn", NeedIssueKeyFab, Null)>>
                 /\ pc' = "Idle"
            ELSE /\ handler' = fabTarget(f)
                 /\ arg' = IF f = "handleFabIssueLookup"
                           THEN Arg(k, "", "", FALSE) ELSE NoArg
                 /\ outcomes' = <<Toast("info", Msg("in progress"),
                                        IF f = "handleFabIssueLookup" THEN k ELSE Null)>>
                 /\ pc' = "sendRuntimeMessage"
  /\ tab' = NoTab
  /\ reply' = NoReply
  /\ context' = NoContext
  /\ issueKey' = Null
  /\ requests' = << >>
  /\ response' = NoResponse
  /\ result' = NoResult
  /\ trace' = << >>
  /\ UNCHANGED <<storage, fabEnabled>>
  /\ UNCHANGED auxVars

\* sendRuntimeMessage: the service worker takes the message, or
\* chrome.runtime.lastError makes the promise reject
sendRuntimeMessage ==
  /\ pc = "sendRuntimeMessage"
  /\ \/ /\ pc' = entry(handler)
        /\ issueKey' = IF handler = "handlePopupGetIssue" THEN trim(Str(arg.key)) ELSE Null
        /\ UNCHANGED outcomes
     \/ /\ outcomes' = Append(outcomes, Toast("error", RequestError, Null))
        /\ pc' = "Idle"
        /\ UNCHANGED issueKey
  /\ UNCHANGED <<handler, caller, arg, storage, tab, reply, context,
                 requests, response, result, trace, fabEnabled>>
  /\ UNCHANGED auxVars

\* the FAB handler after the answer arrived
fabReceive ==
  /\ pc = "fabReceive"
  /\ outcomes' =
       IF ~result.ok
       THEN Append(outcomes,
                   Toast("error",
                         IF result.message # NoMsg THEN result.message
                         ELSE fabFallback(caller),
                         Null))
       ELSE IF caller = "handleFabIssueLookup"
       THEN outcomes \o <<Outcome("dialog", "issue", NoMsg, arg.key),
                          Toast("success", Msg("done"), arg.key)>>
       ELSE Append(outcomes, Toast("success", Msg("done"), result.issueKey))
  /\ pc' = "Idle"
  /\ UNCHANGED <<handler, caller, arg, storage, tab, reply, context, issueKey,
                 requests, response, result, trace, fabEnabled>>
  /\ UNCHANGED auxVars

\* ------------------------------------------------------------------------
\* The toolbar-click variant of the service worker (handleGerritAction)
\* ------------------------------------------------------------------------

mapJiraError_toolbar(status) ==
  CASE status = 401 -> Msg("authentication failed (401)")
    [] status = 403 -> Msg("no permission (403): no permission to comment on the issue")
    [] status = 404 -> Msg("issue not found (404)")
    [] OTHER -> <<"Jira API error: HTTP", status>>

OnlyOnGerrit == Msg("usable on Gerrit change pages only")
KeyNotFound == Msg("issue key not found (e.g. TF-123), add jira: KEY")

\* a SHOW_TOAST message to the tab is shown when it is delivered
showToastInTab(delivered, toast) ==
  IF delivered THEN Append(outcomes, toast) ELSE outcomes

\* chrome.action.onClicked listener
onClicked ==
  /\ pc = "Idle"
  /\ caller' = "toolbar"
  /\ arg' = NoArg
  /\ \E t \in Tabs \ {NoTab} :
       /\ tab' = t
       /\ IF t.url = EmptyUrl \/ ~isGerritTab(t.url)
          THEN /\ handler' = "onClicked"
               /\ \E d \in BOOLEAN :
                    outcomes' = IF d THEN <<Toast("warn", OnlyOnGerrit, Null)>> ELSE << >>
               /\ pc' = "Idle"
          ELSE /\ handler' = "handleGerritAction"
               /\ outcomes' = << >>
               /\ pc' = "extractInfo"
  /\ reply' = NoReply
  /\ context' = NoContext
  /\ issueKey' = Null
  /\ requests' = << >>
  /\ response' = NoResponse
  /\ result' = NoResult
  /\ trace' = << >>
  /\ UNCHANGED <<storage, fabEnabled>>
  /\ UNCHANGED auxVars

\* handleGerritAction step 1: sendToTab of EXTRACT_INFO and the key check
extractInfo ==
  /\ pc = "extractInfo"
  /\ \/ /\ trace' = Append(trace, "sendToTab:failed")
        /\ \E d \in BOOLEAN :
             outcomes' = showToastInTab(d, Toast("error", PageUnreadable, Null))
        /\ pc' = "Idle"
        /\ UNCHANGED <<reply, issueKey>>
     \/ /\ trace' = Append(trace, "sendToTab:ok")
        /\ \E r \in Replies :
             /\ reply' = r
             /\ IF r.issueKey = Null \/ r.issueKey = << >>
                THEN /\ \E d \in BOOLEAN :
                          outcomes' = showToastInTab(d, Toast("warn", KeyNotFound, Null))
                     /\ pc' = "Idle"
                     /\ UNCHANGED issueKey
                ELSE /\ issueKey' = r.issueKey
                     /\ pc' = "loadCredentials"
                     /\ UNCHANGED outcomes
  /\ UNCHANGED <<handler, caller, arg, storage, tab, context,
                 requests, response, result, fabEnabled>>
  /\ UNCHANGED auxVars

\* handleGerritAction step 2
loadCredentials ==
  /\ pc = "loadCredentials"
  /\ trace' = Append(trace, "loadCredentials")
  /\ IF ~Truthy(storage.jiraEmail) \/ ~Truthy(storage.jiraToken)
     THEN /\ \E d \in BOOLEAN :
               outcomes' = showToastInTab(d, Toast("error", NotConfigured, Null))
          /\ pc' = "Idle"
     ELSE /\ pc' = "postJiraComment"
          /\ UNCHANGED outcomes
  /\ UNCHANGED <<handler, caller, arg, storage, tab, reply, context, issueKey,
                 requests, response, result, fabEnabled>>
  /\ UNCHANGED auxVars

\* handleGerritAction steps 3 and 4: postJiraComment and the result toast
postJiraComment ==
  /\ pc = "postJiraComment"
  /\ trace' = trace \o <<"buildAdfComment", "fetch">>
  /\ requests' = Append(requests,
                        Request("POST /rest/api/3/issue/{key}/comment", issueKey,
                                reply.gerritUrl))
  /\ \/ /\ \E d \in BOOLEAN :
             outcomes' = showToastInTab(d, Toast("error", NetworkError, Null))
        /\ UNCHANGED response
     \/ \E st \in Statuses :
          /\ response' = Response(st, "json")
          /\ \E d \in BOOLEAN :
               outcomes' = showToastInTab(d,
                 IF st = 201
                 THEN Toast("success", Msg("Jira comment added"), issueKey)
                 ELSE Toast("error", mapJiraError_toolbar(st), Null))
  /\ pc' = "Idle"
  /\ UNCHANGED <<handler, caller, arg, storage, tab, reply, context, issueKey,
                 result, fabEnabled>>
  /\ UNCHANGED auxVars

FabStep == sendRuntimeMessage \/ fabReceive

ToolbarStep == extractInfo \/ loadCredentials \/ postJiraComment

Start == onMessage \/ fabClick \/ onClicked

Step == ServiceWorkerStep \/ FabStep \/ ToolbarStep

Next == Start \/ Step

Spec == Init /\ [][Next]_vars

\* every started step of an action is eventually taken: messages, storage
\* reads and HTTP requests all resolve or reject
FairSpec == Spec /\ WF_vars(Step)
\* ------------------------------------------------------------------------
\* extractContextWithRetry as a state machine of its own
\* ------------------------------------------------------------------------

\* a variant of finish without the done flag
finishUnguarded(r, ctx) ==
  [r EXCEPT !.done = TRUE, !.pollTimer = FALSE, !.deadlineTimer = FALSE,
            !.observing = FALSE, !.queued = FALSE,
            !.cleanups = @ + 1, !.resolves = @ + 1,
            !.value = ctx, !.resolvedAt = r.now, !.phase = "resolved"]

\* finish(ctx): clearInterval, clearTimeout, observer.disconnect, resolve
finish(r, ctx) ==
  IF r.done
  THEN r
  ELSE [r EXCEPT !.done = TRUE, !.pollTimer = FALSE, !.deadlineTimer = FALSE,
                 !.observing = FALSE, !.queued = FALSE,
                 !.cleanups = @ + 1, !.resolves = @ + 1,
                 !.value = ctx, !.resolvedAt = r.now, !.phase = "resolved"]

\* a variant of checkNow that finishes with whatever it extracted
checkNowAnyContext(r) == finish(r, r.page)

checkNow(r) == IF hasIssueKey(r.page) THEN finish(r, r.page) ELSE r

\* the setInterval callback
pollCallback(r) ==
  LET checked == checkNow(r)
  IN IF checked.now >= checked.timeoutMs THEN finish(checked, checked.page) ELSE checked

\* the setTimeout callback
deadlineCallback(r) == finish(r, r.page)

RetryInit ==
  /\ MainInit
  /\ storage = [jiraEmail |-> "me@x.com", jiraToken |-> "tok"]
  /\ \E k \in PageStates : \E root \in BOOLEAN : retry = Retry(k, root)
  /\ text = NoText
  /\ pure = NoPure
  /\ popup = NoPopup
  /\ fab = NoFab

\* the EXTRACT_CONTEXT listener calls extractContextWithRetry()
extractContextWithRetry ==
  /\ retry.phase = "idle"
  /\ \E t \in TimeoutsMs :
       retry' =
         IF hasIssueKey(retry.page)
         THEN [retry EXCEPT !.phase = "resolved", !.timeoutMs = t, !.first = TRUE,
                            !.resolves = 1, !.value = retry.page]
         ELSE [retry EXCEPT !.phase = "pending", !.timeoutMs = t,
                            !.observing = retry.root,
                            !.pollTimer = TRUE, !.deadlineTimer = TRUE]
  /\ UNCHANGED <<mainVars, text, pure, popup, fab>>

\* time passes
advance ==
  /\ retry.phase = "pending"
  /\ retry.now + QuantumMs <= retry.timeoutMs + MaxLateMs
  /\ retry' = [retry EXCEPT !.now = @ + QuantumMs]
  /\ UNCHANGED <<mainVars, text, pure, popup, fab>>

\* the interval fires
pollTick ==
  /\ retry.pollTimer
  /\ (retry.polls + 1) * PollIntervalMs <= retry.now
  /\ retry' = pollCallback([retry EXCEPT !.polls = @ + 1])
  /\ UNCHANGED <<mainVars, text, pure, popup, fab>>

\* the timeout fires
deadline ==
  /\ retry.deadlineTimer
  /\ retry.now >= retry.timeoutMs
  /\ retry' = deadlineCallback(retry)
  /\ UNCHANGED <<mainVars, text, pure, popup, fab>>

\* the page changes; a connected observer is notified
mutate ==
  /\ \E k \in PageStates \ {retry.page} :
       retry' = [retry EXCEPT !.page = k, !.queued = retry.observing]
  /\ UNCHANGED <<mainVars, text, pure, popup, fab>>

\* the MutationObserver callback
observerCallback ==
  /\ retry.queued
  /\ retry.observing
  /\ retry' = checkNow([retry EXCEPT !.queued = FALSE])
  /\ UNCHANGED <<mainVars, text, pure, popup, fab>>

\* .then(sendResponse): the answer leaves, the next call may start
thenSendResponse ==
  /\ retry.phase = "resolved"
  /\ retry' = Retry(retry.page, retry.root)
  /\ UNCHANGED <<mainVars, text, pure, popup, fab>>

RetryNext ==
  \/ extractContextWithRetry
  \/ advance
  \/ pollTick
  \/ deadline
  \/ mutate
  \/ observerCallback
  \/ thenSendResponse

RetrySpec == RetryInit /\ [][RetryNext]_vars

\* the clock runs and every timer or notification that is due is delivered
RetryFairSpec ==
  /\ RetrySpec
  /\ WF_vars(advance)
  /\ WF_vars(pollTick)
  /\ WF_vars(deadline)
  /\ WF_vars(observerCallback)

\* ------------------------------------------------------------------------
\* The comment-text functions applied to their inputs
\* ------------------------------------------------------------------------

TextInit ==
  /\ MainInit
  /\ storage = [jiraEmail |-> "me@x.com", jiraToken |-> "tok"]
  /\ retry = NoRetry
  /\ pure = NoPure
  /\ popup = NoPopup
  /\ fab = NoFab
  /\ \E t \in Templates : \E v \in VarMaps : text = Text(t, v)

\* buildCommentAdf: the template in force
effectiveTemplate(commentTemplate) ==
  IF trim(Str(commentTemplate)) = << >> THEN DefaultTemplate ELSE trim(commentTemplate)

\* buildCommentAdf: the variables handed to renderTemplate
commentVars(v) ==
  [title |-> IF Str(v.title) = << >> THEN NoTitle ELSE v.title,
   body |-> Str(v.body), branch |-> Str(v.branch), changeNum |-> Str(v.changeNum),
   project |-> Str(v.project), owner |-> Str(v.owner), date |-> v.date,
   url |-> v.url]

\* renderTemplate(template, vars)
renderTemplateCall ==
  /\ text.stage = "input"
  /\ text' = [text EXCEPT !.stage = "renderTemplate",
                          !.rendered = renderTemplate(text.template, text.v)]
  /\ UNCHANGED <<mainVars, retry, pure, popup, fab>>

\* buildCommentAdf(context) with text.template stored as commentTemplate
buildCommentAdf ==
  /\ text.stage = "input"
  /\ LET rendered == renderTemplate(effectiveTemplate(text.template), commentVars(text.v))
         safeText == ensureCommentMinimum(rendered, commentVars(text.v))
     IN text' = [text EXCEPT !.stage = "buildCommentAdf",
                             !.rendered = rendered,
                             !.safeText = safeText,
                             !.doc = textToAdf(safeText, text.v.url)]
  /\ UNCHANGED <<mainVars, retry, pure, popup, fab>>

\* textToAdf(text, linkUrl)
textToAdfCall ==
  /\ text.stage = "input"
  /\ text' = [text EXCEPT !.stage = "textToAdf",
                          !.doc = textToAdf(text.template, text.v.url)]
  /\ UNCHANGED <<mainVars, retry, pure, popup, fab>>

\* inlineNodesForLine(line, linkUrl)
inlineNodesForLineCall ==
  /\ text.stage = "input"
  /\ text' = [text EXCEPT !.stage = "inlineNodesForLine",
                          !.nodes = inlineNodesForLine(text.template, text.v.url)]
  /\ UNCHANGED <<mainVars, retry, pure, popup, fab>>

TextNext ==
  \/ renderTemplateCall
  \/ buildCommentAdf
  \/ textToAdfCall
  \/ inlineNodesForLineCall

TextSpec == TextInit /\ [][TextNext]_vars

\* ------------------------------------------------------------------------
\* The validators and the extraction functions, called on their own
\* ------------------------------------------------------------------------

\* a JavaScript value as a message can carry it: what typeof answers and the
\* text String(v) gives
Js(kind, str) == [kind |-> kind, s |-> str]
JsString(str) == Js("string", str)
JsNull == Js("null", <<"n", "u", "l", "l">>)
JsUndefined == Js("undefined", <<"u", "n", "d", "e", "f", "i", "n", "e", "d">>)
JsNumber(digits) == Js("number", digits)
JsObject == Js("object", <<"[", "o", "b", "j", "e", "c", "t", " ", "O", "b", "j", "e", "c", "t", "]">>)

\* Array.prototype.join(","), which String(array) applies
RECURSIVE join(_)
join(elems) ==
  IF elems = << >> THEN << >>
  ELSE IF Len(elems) = 1 THEN elems[1]
  ELSE elems[1] \o <<",">> \o join(Tail(elems))

JsArray(elems) == Js("array", join(elems))

typeof(v) ==
  CASE v.kind = "string" -> "string"
    [] v.kind = "undefined" -> "undefined"
    [] v.kind = "number" -> "number"
    [] OTHER -> "object"

String(v) == v.s

\* a value that || passes over
falsy(v) ==
  \/ v.kind \in {"null", "undefined"}
  \/ v.kind = "string" /\ v.s = << >>
  \/ v.kind = "number" /\ v.s = <<"0">>

\* service_worker.js: typeof key === 'string' && /^[A-Z][A-Z0-9]+-\d+$/.test(key)
isValidIssueKey_worker(key) == typeof(key) = "string" /\ isValidIssueKey(key.s)

\* the popup: /^[A-Z][A-Z0-9]+-\d+$/.test(key), and test() takes String(key)
isValidIssueKey_popup(key) == isValidIssueKey(String(key))

\* the longest key text tried, in characters
MaxKeyLen == 4

KeyChars == {"T", "F", "t", "1", "-", " "}

KeyTexts ==
  UNION {[1..n -> KeyChars] : n \in 0..MaxKeyLen}
    \cup { <<"T", "F", "-", "1", "2", "3">>, <<"t", "f", "-", "1", "2", "3">>,
           <<"T", "F", "1", "2", "3">>, <<"T", "F", "-">> }

KeyValues ==
  {JsString(k) : k \in KeyTexts}
    \cup {JsNull, JsUndefined, JsObject, JsNumber(<<"1">>), JsNumber(<<"0">>),
          JsArray(<< >>), JsArray(<<KeyTF1>>), JsArray(<<KeyTF1, KeyAB2>>)}

\* A URL text is a sequence of lexemes: a scheme, ":", "/", "@", a host name,
\* digits. The longest text tried, in lexemes:
MaxUrlLen == 4

GerritHost == "gerrit.thinkfree.com"

UrlLexemes == {"http", "https", ":", "/", "@", GerritHost, "evil.com", "8080"}

\* https://evil.com/http://gerrit.thinkfree.com and other texts of the kind
UrlExamples ==
  { <<"https", ":", "/", "/", "evil.com", "/", "http", ":", "/", "/", GerritHost>>,
    <<"http", ":", "/", "/", GerritHost, ".", "evil.com", "/">>,
    <<"http", ":", "/", "/", "sub", ".", GerritHost, "/">>,
    <<"http", ":", "/", "/", GerritHost, "@", "evil.com", "/">>,
    <<"http", ":", "/", "/", GerritHost, ":", "80", "/", "c">>,
    <<"https", ":", "/", "/", GerritHost, ":", "443", "/", "c">>,
    <<"http", ":", "/", "/", GerritHost, ":", "443", "/", "c">>,
    <<"https", ":", "/", "/", GerritHost, ":", "8080", "/", "c">>,
    <<"http", ":", "/", "/", GerritHost, "/", "c", "/", "p">>,
    <<"undefined">>, <<"null">> }

UrlTexts == UNION {[1..n -> UrlLexemes] : n \in 0..MaxUrlLen} \cup UrlExamples

\* the first position from i on that holds one of the lexemes, or Len + 1
RECURSIVE firstOf(_, _, _)
firstOf(t, lexemes, i) ==
  IF i > Len(t) \/ t[i] \in lexemes THEN i ELSE firstOf(t, lexemes, i + 1)

\* the first position from i on that holds no slash, or Len + 1
RECURSIVE skipSlashes(_, _)
skipSlashes(t, i) == IF i <= Len(t) /\ t[i] = "/" THEN skipSlashes(t, i + 1) ELSE i

\* the last position of the lexeme in t[from..to], or 0
lastIndexOf(t, lexeme, from, to) ==
  LET at == {i \in from..to : t[i] = lexeme}
  IN IF at = {} THEN 0 ELSE CHOOSE i \in at : \A j \in at : j <= i

\* a host name of several lexemes is a name of its own
hostName(lexemes) == IF Len(lexemes) = 1 THEN lexemes[1] ELSE "a longer name"

\* new URL(text) for an http or https text: the scheme, any slashes, the
\* authority up to the next slash, in it the user information up to the
\* last "@", the host and the port; BadUrl when new URL throws
parseURL(t) ==
  IF Len(t) < 3 \/ t[1] \notin {"http", "https"} \/ t[2] # ":" THEN BadUrl
  ELSE LET a == skipSlashes(t, 3)
           e == firstOf(t, {"/"}, a) - 1
           at == lastIndexOf(t, "@", a, e)
           h == IF at = 0 THEN a ELSE at + 1
           c == firstOf(t, {":"}, h)
           hostEnd == IF c <= e THEN c - 1 ELSE e
           portLexemes == SubSeq(t, hostEnd + 2, e)
       IN IF hostEnd < h THEN BadUrl
          ELSE IF Len(portLexemes) > 1 THEN BadUrl
          ELSE IF portLexemes # << >>
                  /\ portLexemes[1] \notin {"80", "443", "8080"} THEN BadUrl
          ELSE Url(t[1], hostName(SubSeq(t, h, hostEnd)),
                   IF portLexemes = << >> THEN "" ELSE portLexemes[1],
                   IF e < Len(t) THEN "/..." ELSE "/")

\* content_script.js reads texts of the page. A page text is a sequence of
\* lexemes: a run of letters and digits is one word; a blank, a newline and
\* every other character is a lexeme of its own.
MiddleDot == "middle dot"

\* a Change-Id of 'I' and 40 hexadecimal digits, and one of 39
ChangeIdToken == "I0123456789abcdef0123456789abcdef01234567"
ShortIdToken == "I0123456789abcdef0123456789abcdef0123456"

\* words that read [A-Z][A-Z0-9]+ as they stand
UpperKeyWords == {"TF", "AB"}

\* words that read [A-Z][A-Z0-9]+ when the case is ignored
KeyWords ==
  UpperKeyWords \cup {"tf", "jira", "Fix", "login", "Gerrit", "Code", "Review",
                      "Change", "Id", "Sub", ChangeIdToken, ShortIdToken}

DigitWords == {"9", "2"}

Words == KeyWords \cup DigitWords

\* String.prototype.toUpperCase on a word
toUpperCaseWord(w) ==
  CASE w = "tf" -> "TF"
    [] w = "jira" -> "JIRA"
    [] w = "Fix" -> "FIX"
    [] w = "login" -> "LOGIN"
    [] w = "Gerrit" -> "GERRIT"
    [] w = "Code" -> "CODE"
    [] w = "Review" -> "REVIEW"
    [] w = "Change" -> "CHANGE"
    [] w = "Id" -> "ID"
    [] w = "Sub" -> "SUB"
    [] w = ChangeIdToken -> "I0123456789ABCDEF0123456789ABCDEF01234567"
    [] w = ShortIdToken -> "I0123456789ABCDEF0123456789ABCDEF0123456"
    [] OTHER -> w

\* \s*: the first position from i on that holds no blank and no newline
RECURSIVE skipSpace(_, _)
skipSpace(t, i) ==
  IF i <= Len(t) /\ t[i] \in Whitespace THEN skipSpace(t, i + 1) ELSE i

\* the smallest member of a set of positions, 0 when it is empty
leftmost(positions) ==
  IF positions = {} THEN 0 ELSE CHOOSE i \in positions : \A j \in positions : i <= j

\* [A-Z][A-Z0-9]+-\d+ at position k, the case ignored or not
keyAt(t, k, ignoreCase) ==
  /\ k + 2 <= Len(t)
  /\ t[k] \in (IF ignoreCase THEN KeyWords ELSE UpperKeyWords)
  /\ t[k + 1] = "-"
  /\ t[k + 2] \in DigitWords

\* text.match(JIRA_TAG_RE): the position of the key of the first tag, or 0
matchJiraTag(t) ==
  LET keyOf(i) == skipSpace(t, skipSpace(t, i + 1) + 1)
      hits == {i \in 1..Len(t) :
                 /\ t[i] = "jira"
                 /\ skipSpace(t, i + 1) <= Len(t)
                 /\ t[skipSpace(t, i + 1)] = ":"
                 /\ keyAt(t, keyOf(i), TRUE)}
  IN IF hits = {} THEN 0 ELSE keyOf(leftmost(hits))

\* text.match(ISSUE_KEY_RE): the position of the first bare key, or 0
matchIssueKey(t, ignoreCase) ==
  leftmost({k \in 1..Len(t) : keyAt(t, k, ignoreCase)})

\* normalizeIssueKey on a key that was found
normalizeIssueKey(key) == [i \in 1..Len(key) |-> toUpperCaseWord(key[i])]

\* content_script.js 44-54
extractIssueKeyFromText(t) ==
  LET tag == matchJiraTag(t)
      bare == matchIssueKey(t, TRUE)
  IN IF tag # 0 THEN normalizeIssueKey(SubSeq(t, tag, tag + 2))
     ELSE IF bare # 0 THEN normalizeIssueKey(SubSeq(t, bare, bare + 2))
     ELSE Null

\* the page: the text of the subject element (empty when no selector
\* matches), document.title, the text of the commit message element and
\* the rest of the page's text
Page(subject, title, commit, rest) ==
  [subject |-> subject, title |-> title, commit |-> commit, rest |-> rest]

Separators == {"-", "|", MiddleDot}

\* the first position from i on that holds no separator
RECURSIVE skipSeparators(_, _)
skipSeparators(t, i) ==
  IF i <= Len(t) /\ t[i] \in Separators THEN skipSeparators(t, i + 1) ELSE i

\* /\s*[.|-]+\s*Gerrit/i with the middle dot and the dashes in the class,
\* tried at position i: the position of the brand name, or 0
brandAt(t, i) ==
  LET j == skipSpace(t, i)
      m == skipSpace(t, skipSeparators(t, j))
  IN IF j <= Len(t) /\ t[j] \in Separators /\ m <= Len(t) /\ t[m] = "Gerrit"
     THEN m ELSE 0

\* .replace(/\s*[.|-]+\s*Gerrit.*/i, ""): the first match, which runs to the
\* end of the line
stripBrandSuffix(t) ==
  LET i == leftmost({n \in 1..Len(t) : brandAt(t, n) # 0})
  IN IF i = 0 THEN t
     ELSE SubSeq(t, 1, i - 1) \o SubSeq(t, firstOf(t, {NL}, brandAt(t, i)), Len(t))

\* .replace(/^[A-Za-z0-9]+:\s*/, "")
stripPrefix(t) ==
  IF Len(t) >= 2 /\ t[1] \in Words /\ t[2] = ":"
  THEN SubSeq(t, skipSpace(t, 3), Len(t)) ELSE t

\* content_script.js 56-77
extractSubject(page) ==
  IF trim(page.subject) # << >> THEN trim(page.subject)
  ELSE IF trim(stripPrefix(stripBrandSuffix(page.title))) # << >>
  THEN trim(stripPrefix(stripBrandSuffix(page.title)))
  ELSE trim(page.title)

\* content_script.js 79-101
getCommitMessageText(page) == trim(page.commit)

\* content_script.js 103-162; the scans of the body text, of the shadow
\* roots and of the common nodes read the rest of the page
extractIssueKey(page) ==
  LET fromSubject == extractIssueKeyFromText(extractSubject(page))
      fromTitle == extractIssueKeyFromText(page.title)
      fromCommit == extractIssueKeyFromText(getCommitMessageText(page))
      fromBody == extractIssueKeyFromText(page.rest)
  IN IF fromSubject # Null THEN fromSubject
     ELSE IF fromTitle # Null THEN fromTitle
     ELSE IF fromCommit # Null THEN fromCommit
     ELSE fromBody

\* content_script.js 794-819, the earlier definition
extractIssueKey_old(page) ==
  LET tag == matchJiraTag(page.commit)
      bare == matchIssueKey(extractSubject(page), FALSE)
  IN IF tag # 0 THEN SubSeq(page.commit, tag, tag + 2)
     ELSE IF bare # 0 THEN SubSeq(extractSubject(page), bare, bare + 2)
     ELSE Null

RECURSIVE joinLines(_)
joinLines(lines) ==
  IF lines = << >> THEN << >>
  ELSE IF Len(lines) = 1 THEN lines[1]
  ELSE lines[1] \o <<NL>> \o joinLines(Tail(lines))

\* /^\s*jira\s*:/i.test(line)
isJiraLine(line) ==
  LET i == skipSpace(line, 1)
  IN /\ i <= Len(line)
     /\ line[i] = "jira"
     /\ skipSpace(line, i + 1) <= Len(line)
     /\ line[skipSpace(line, i + 1)] = ":"

\* content_script.js 210-221
extractCommitBody(page) ==
  LET t == getCommitMessageText(page)
      NotJira(line) == ~isJiraLine(line)
  IN IF t = << >> THEN << >>
     ELSE trim(collapseNewlines(joinLines(SelectSeq(Tail(splitLines(t)), NotJira))))

\* content_script.js 223-227: commitText.match(CHANGE_ID_RE)
extractChangeId(page) ==
  LET t == getCommitMessageText(page)
      idOf(i) == skipSpace(t, skipSpace(t, i + 3) + 1)
      hits == {i \in 1..(Len(t) - 2) :
                 /\ t[i] = "Change" /\ t[i + 1] = "-" /\ t[i + 2] = "Id"
                 /\ skipSpace(t, i + 3) <= Len(t)
                 /\ t[skipSpace(t, i + 3)] = ":"
                 /\ idOf(i) <= Len(t)
                 /\ t[idOf(i)] = ChangeIdToken}
  IN IF hits = {} THEN << >> ELSE <<t[idOf(leftmost(hits))]>>

Pure(dom, in) == [fn |-> "input", dom |-> dom, in |-> in, out |-> FALSE]

\* context?.name: a field of the content script's answer
field(answer, name) ==
  IF answer.kind \in {"null", "undefined"} THEN JsUndefined ELSE answer.fields[name]

\* a || b
or(a, b) == IF falsy(a) THEN b ELSE a

\* the longest subject handed on, in characters
SubjectLimit == 500

\* s.slice(0, n)
slice(str, n) == SubSeq(str, 1, IF Len(str) < n THEN Len(str) ELSE n)

\* a variant that hands the answer's value on as it is
safeTextRaw(v) == v

\* String(context?.name || "").trim()
safeText(v) == JsString(trim(String(or(v, JsString(<< >>)))))

TextFields == {"branch", "body", "changeNum", "project", "owner", "changeId"}

\* service_worker.js 128-138: the nine fields of safeContext
safeContextOf(answer, tabUrl) ==
  [name \in TextFields \cup {"issueKey", "subject", "gerritUrl"} |->
     CASE name = "issueKey" ->
            IF isValidIssueKey_worker(or(field(answer, name), JsString(<< >>)))
            THEN field(answer, name) ELSE JsNull
       [] name = "subject" ->
            JsString(slice(safeText(field(answer, name)).s, SubjectLimit))
       [] name = "gerritUrl" ->
            JsString(String(or(field(answer, name), JsString(tabUrl))))
       [] OTHER -> safeText(field(answer, name))]

\* the URL of the active tab, which isGerritTab accepted
TabUrlText == <<"https", ":", "/", "/", GerritHost, "/", "c">>

\* a subject of 501 characters
LongSubject == [i \in 1..(SubjectLimit + 1) |-> "a"]

TextValues ==
  { JsUndefined, JsNull, JsString(<< >>), JsString(<<" ", "a", " ">>),
    JsNumber(<<"7">>), JsNumber(<<"0">>), JsObject, JsArray(<<KeyTF1>>) }

\* what the content script may answer to EXTRACT_CONTEXT
Answers ==
  {JsUndefined, JsNull}
    \cup {[kind |-> "object",
           fields |-> [name \in TextFields \cup {"issueKey", "subject", "gerritUrl"} |->
                         CASE name = "issueKey" -> k
                           [] name = "subject" -> sub
                           [] name = "gerritUrl" -> u
                           [] name = "branch" -> b
                           [] OTHER -> rest]] :
            k \in {JsUndefined, JsNull, JsString(KeyTF1), JsString(KeyLower),
                   JsString(<< >>), JsArray(<<KeyTF1>>), JsNumber(<<"1">>), JsObject},
            sub \in TextValues \cup {JsString(LongSubject)},
            u \in {JsUndefined, JsString(<< >>), JsNumber(<<"7">>),
                   JsString(<<"http", ":", "/", "/", GerritHost, "/", "c", "/", "p">>),
                   JsString(<<"https", ":", "/", "/", "evil.com", "/">>)},
            b \in TextValues,
            rest \in {JsUndefined, JsString(<<"a">>)}}

\* TF-9: Fix login . Gerrit Code Review, with the middle dot
ExampleTitle ==
  <<"TF", "-", "9", ":", " ", "Fix", " ", "login", " ", MiddleDot, " ",
    "Gerrit", " ", "Code", " ", "Review">>

\* Fix login. / jira: TF-9 / Change-Id: I and 40 hexadecimal digits
ExampleCommit ==
  <<"Fix", " ", "login", ".", NL, "jira", ":", " ", "TF", "-", "9", NL,
    "Change", "-", "Id", ":", " ", ChangeIdToken>>

Subjects ==
  { << >>, <<" ">>, <<"[", "AB", "-", "2", "]", " ", "Fix">>,
    <<"Fix", " ", "login">>, <<"login", "-", "2", " ", "Fix">> }

Titles ==
  { << >>, ExampleTitle, <<"Fix", " ", MiddleDot, " ", "Gerrit">>,
    <<"AB", "-", "2", " ", "-", " ", "Gerrit", " ", "Code">>,
    <<"9", ":", " ", "Fix", " ", "|", " ", "Gerrit">> }

\* the longest commit message tried, in lines
MaxLines == 3

CommitLines ==
  { << >>, <<"Fix", " ", "login", ".">>, <<"Sub">>,
    <<"jira", ":", " ", "TF", "-", "9">>, <<" ", "jira", " ", ":", "tf", "-", "9">>,
    <<"AB", "-", "2", " ", "Fix">>,
    <<"Change", "-", "Id", ":", " ", ChangeIdToken>>,
    <<"Change", "-", "Id", ":", " ", ShortIdToken>> }

Commits ==
  {joinLines(ls) : ls \in UNION {[1..n -> CommitLines] : n \in 0..MaxLines}}

Pages ==
  {Page(sub, title, commit, rest) :
     sub \in Subjects, title \in Titles,
     commit \in {<< >>, ExampleCommit, <<"Sub", NL, NL, "jira", ":", " ", "TF", "-", "9">>},
     rest \in {<< >>, <<"AB", "-", "2">>}}
    \cup {Page(sub, ExampleTitle, commit, << >>) :
            sub \in {<< >>, <<"[", "AB", "-", "2", "]", " ", "Fix">>},
            commit \in Commits}

PureInputs ==
  {Pure("key", k) : k \in KeyValues}
    \cup {Pure("url", u) : u \in UrlTexts}
    \cup {Pure("page", pg) : pg \in Pages}
    \cup {Pure("answer", a) : a \in Answers}

PureInit ==
  /\ MainInit
  /\ storage = [jiraEmail |-> "me@x.com", jiraToken |-> "tok"]
  /\ retry = NoRetry
  /\ text = NoText
  /\ popup = NoPopup
  /\ fab = NoFab
  /\ pure \in PureInputs

\* the call of fn on the input, with its result
Called(fn, out) ==
  /\ pure.fn = "input"
  /\ pure' = [pure EXCEPT !.fn = fn, !.out = out]
  /\ UNCHANGED <<mainVars, retry, text, popup, fab>>

isValidIssueKeyCall ==
  pure.dom = "key" /\ Called("isValidIssueKey", isValidIssueKey_worker(pure.in))

isValidIssueKeyPopupCall ==
  pure.dom = "key" /\ Called("isValidIssueKey_popup", isValidIssueKey_popup(pure.in))

isGerritTabCall ==
  pure.dom = "url" /\ Called("isGerritTab", isGerritTab(parseURL(pure.in)))

isAllowedChangeUrlCall ==
  pure.dom = "url" /\ Called("isAllowedChangeUrl", isAllowedChangeUrl(parseURL(pure.in)))

extractIssueKeyCall ==
  pure.dom = "page" /\ Called("extractIssueKey", extractIssueKey(pure.in))

extractIssueKeyOldCall ==
  pure.dom = "page" /\ Called("extractIssueKey_old", extractIssueKey_old(pure.in))

extractSubjectCall ==
  pure.dom = "page" /\ Called("extractSubject", extractSubject(pure.in))

extractCommitBodyCall ==
  pure.dom = "page" /\ Called("extractCommitBody", extractCommitBody(pure.in))

extractChangeIdCall ==
  pure.dom = "page" /\ Called("extractChangeId", extractChangeId(pure.in))

\* getActiveGerritContext from the answer on: ok when the URL is allowed
safeContextCall ==
  /\ pure.dom = "answer"
  /\ LET sc == safeContextOf(pure.in, TabUrlText)
     IN Called("safeContext",
               [ok |-> isAllowedChangeUrl(parseURL(sc.gerritUrl.s)), context |-> sc])

PureNext ==
  \/ safeContextCall
  \/ isValidIssueKeyCall
  \/ isValidIssueKeyPopupCall
  \/ isGerritTabCall
  \/ isAllowedChangeUrlCall
  \/ extractIssueKeyCall
  \/ extractIssueKeyOldCall
  \/ extractSubjectCall
  \/ extractCommitBodyCall
  \/ extractChangeIdCall

PureSpec == PureInit /\ [][PureNext]_vars

\* ------------------------------------------------------------------------
\* popup.js: the buttons, the cached context and the asynchronous functions
\* of the popup, with the service worker's answers to its messages
\* ------------------------------------------------------------------------

\* the popup script and its version with the issue key input
PopupVersions == {"popup.js", "issue-key-input"}

GerritOther == Url("http", "gerrit.thinkfree.com", "", "/c/p/+/2")

\* the page of the active tab: the key extractContext() finds on it, its URL
PopupPages ==
  {[issueKey |-> KeyTF1, gerritUrl |-> GerritHttp],
   [issueKey |-> KeyAB2, gerritUrl |-> GerritOther],
   [issueKey |-> Null, gerritUrl |-> GerritOther]}

\* let currentContext = null
NoCurrent == [set |-> FALSE, issueKey |-> Null, gerritUrl |-> EmptyUrl]
Current(ctx) ==
  [set |-> TRUE, issueKey |-> ctx.issueKey, gerritUrl |-> ctx.gerritUrl]

Status(cls, key) == [cls |-> cls, key |-> key]
NoStatus == Status("", Null)

\* an asynchronous function that waits for the answer to its message:
\* the handler that runs, the function that awaits, the message's issue key
Task(fn, at, key) == [fn |-> fn, at |-> at, issueKey |-> key]

NoRequest == [endpoint |-> "none", key |-> Null, url |-> EmptyUrl,
              pageKey |-> Null, pageUrl |-> EmptyUrl]

\* what the step just taken did: loadContext() returned `ready` on the answer
\* `resp` and the issue lookup followed or not, or a link or comment action
\* ended with this Jira request and this key named in its success status
Event(name, resp, ready, lookup, request, named) ==
  [event |-> name, resp |-> resp, ready |-> ready, lookup |-> lookup,
   request |-> request, named |-> named]
NoEvent == Event("none", << >>, FALSE, FALSE, NoRequest, Null)

\* at most this many asynchronous functions wait at a time
MaxRunning == 2

\* currentContext?.issueKey
currentIssueKey(p) ==
  IF p.currentContext.set THEN p.currentContext.issueKey ELSE Null

\* String(key || '').trim().toUpperCase()
normalizeIssueKey_popup(key) == toUpperCase(trim(Str(key)))

getEffectiveIssueKey(p) ==
  LET manual == normalizeIssueKey_popup(p.input)
      detected == normalizeIssueKey_popup(currentIssueKey(p))
  IN IF isValidIssueKey(manual) THEN manual
     ELSE IF isValidIssueKey(detected) THEN detected
     ELSE << >>

\* the key the buttons and the guards of the actions look at, '' for none
actionKey(p) ==
  IF p.version = "popup.js" THEN Str(currentIssueKey(p))
  ELSE IF p.authConfigured THEN getEffectiveIssueKey(p)
  ELSE << >>

\* each button field holds the button's `disabled`
syncActionButtons(p) ==
  [p EXCEPT !.btnRefresh = FALSE,
            !.btnLink = (actionKey(p) = << >>),
            !.btnComment = (actionKey(p) = << >>)]

setActionBusy(p, isBusy) ==
  IF isBusy
  THEN [p EXCEPT !.btnRefresh = TRUE, !.btnLink = TRUE, !.btnComment = TRUE]
  ELSE syncActionButtons(p)

setStatus(p, cls, key) == [p EXCEPT !.status = Status(cls, key)]

renderContext(p, ctx) ==
  LET q == [p EXCEPT !.currentContext = Current(ctx)]
  IN syncActionButtons(
       IF /\ p.version # "popup.js"
          /\ p.input = << >>
          /\ hasIssueKey(ctx.issueKey)
       THEN [q EXCEPT !.input = ctx.issueKey]
       ELSE q)

\* the catch of loadContext
loadContextCatch(p) ==
  setStatus(syncActionButtons([p EXCEPT !.currentContext = NoCurrent]),
            "err", Null)

\* loadContext() from the answer to POPUP_GET_CONTEXT on: the popup after it
\* and the value it returns.  popup.js calls setButtonsEnabled, which no
\* script defines: the call throws a ReferenceError inside the try.
loadContext(p, resp) ==
  IF resp.kind = "lastError" THEN [p |-> loadContextCatch(p), ready |-> FALSE]
  ELSE IF resp.kind # "ok"
  THEN [p |-> setStatus(syncActionButtons(
                          [p EXCEPT !.currentContext = NoCurrent]),
                        "warn", Null),
        ready |-> FALSE]
  ELSE LET q == renderContext(p, resp.context)
       IN IF p.version = "popup.js"
          THEN [p |-> loadContextCatch(q), ready |-> FALSE]
          ELSE IF getEffectiveIssueKey(q) = << >>
          THEN [p |-> setStatus(q, "warn", Null), ready |-> TRUE]
          ELSE [p |-> setStatus(q, "ok", Null), ready |-> TRUE]

\* /\/c\/.+\/\+\/\d+/ on the path of the URL
isGerritChangeUrl(url) ==
  url.scheme # "" /\ url.path \in {"/c/p/+/1", "/c/p/+/2"}

\* fetchIssue(), addRemoteLink() and addComment() up to their await: the
\* popup after it, and the task that waits, if the guards let it send
beginAction(p, fn, at) ==
  IF p.version # "popup.js" /\ ~p.authConfigured
  THEN [p |-> setStatus(p, "warn", Null), waits |-> FALSE, task |-> Task(fn, at, Null)]
  ELSE IF actionKey(p) = << >>
  THEN [p |-> setStatus(p, "warn", Null), waits |-> FALSE, task |-> Task(fn, at, Null)]
  ELSE [p |-> setStatus(setActionBusy(p, TRUE), "", Null),
        waits |-> TRUE,
        task |-> Task(fn, at, IF p.version = "popup.js" /\ at # "fetchIssue"
                              THEN Null
                              ELSE actionKey(p))]

\* the part of these functions after the await, with its finally
endAction(p, task, resp) ==
  LET named == IF p.version = "popup.js" THEN currentIssueKey(p)
               ELSE task.issueKey
      thrown == p.version = "popup.js" /\ ~p.currentContext.set
      q == IF resp.kind = "ok" /\ ~thrown
           THEN setStatus(p, "ok", named)
           ELSE setStatus(p, "err", Null)
  IN setActionBusy(q, FALSE)

\* getActiveGerritContext() of the service worker on the page as it is when
\* the message is handled; lastError is an answer that never comes
popupGetContext(page, reach) ==
  IF reach # "ok" THEN [kind |-> reach]
  ELSE [kind |-> "ok",
        context |-> safeContext(Reply(page.issueKey, page.gerritUrl),
                                page.gerritUrl)]

\* handlePopupAddRemoteLink / handlePopupAddComment: the Jira request made,
\* if any, and the answer
handlePopupAdd(h, page, issueKeyOverride, reach, jira) ==
  LET contextResp == popupGetContext(page, reach)
      selected == selectIssueKey(issueKeyOverride, contextResp.context.issueKey)
  IN IF contextResp.kind # "ok"
     THEN [request |-> NoRequest, resp |-> contextResp]
     ELSE IF \/ ~hasIssueKey(selected)
             \/ ~isAllowedChangeUrl(contextResp.context.gerritUrl)
     THEN [request |-> NoRequest, resp |-> [kind |-> "failed"]]
     ELSE [request |-> [endpoint |-> endpoint(h),
                        key |-> selected,
                        url |-> contextResp.context.gerritUrl,
                        pageKey |-> page.issueKey,
                        pageUrl |-> page.gerritUrl],
           resp |-> IF jira = "ok" THEN [kind |-> "ok", issueKey |-> selected]
                    ELSE [kind |-> "failed"]]

without(seq, i) == [k \in 1..(Len(seq) - 1) |-> IF k < i THEN seq[k] ELSE seq[k + 1]]

\* the popup as its script leaves it at its first await
Popup(version, page) ==
  [version |-> version,
   page |-> page,
   currentContext |-> NoCurrent,
   input |-> << >>,            \* issueKeyInputEl.value
   typed |-> FALSE,            \* the user has typed into the input
   authConfigured |-> TRUE,
   btnRefresh |-> FALSE,       \* btnRefresh.disabled, after syncActionButtons()
   btnLink |-> TRUE,
   btnComment |-> TRUE,
   status |-> NoStatus,
   running |-> << Task("start",
                       IF version = "popup.js" THEN "loadContext"
                       ELSE "loadAuthState",
                       Null) >>,
   last |-> NoEvent]

PopupInit ==
  /\ MainInit
  /\ retry = NoRetry
  /\ text = NoText
  /\ pure = NoPure
  /\ fab = NoFab
  /\ popup \in {Popup(v, page) : v \in PopupVersions, page \in PopupPages}

PopupEvent(p, event) ==
  /\ popup.version \in PopupVersions
  /\ popup' = [p EXCEPT !.last = event]
  /\ UNCHANGED <<mainVars, retry, text, pure, fab>>

PopupStep(p) == PopupEvent(p, NoEvent)

\* the user opens another change in the tab, or the page re-renders
navigate ==
  \E page \in PopupPages \ {popup.page} :
    PopupStep([popup EXCEPT !.page = page])

\* the input listener of the issue key input
inputListener ==
  /\ popup.version # "popup.js"
  /\ \E value \in {<< >>, KeyLower, KeyAB2} :
       PopupStep(syncActionButtons(
         [popup EXCEPT !.input = normalizeIssueKey_popup(value),
                       !.typed = TRUE]))

\* the click listener of btnRefresh up to its await
refreshClick ==
  /\ ~popup.btnRefresh
  /\ Len(popup.running) < MaxRunning
  /\ PopupStep([setActionBusy(popup, TRUE) EXCEPT
                  !.running = Append(@, Task("refresh", "loadContext", Null))])

actionClick(fn) ==
  /\ Len(popup.running) < MaxRunning
  /\ LET b == beginAction(popup, fn, fn)
     IN PopupStep(IF b.waits
                  THEN [b.p EXCEPT !.running = Append(@, b.task)]
                  ELSE b.p)

linkClick == ~popup.btnLink /\ actionClick("addRemoteLink")

commentClick == ~popup.btnComment /\ actionClick("addComment")

\* loadAuthState() from the answer on
authStateAnswer ==
  \E i \in 1..Len(popup.running), configured \in BOOLEAN :
    /\ popup.running[i].at = "loadAuthState"
    /\ PopupStep([syncActionButtons([popup EXCEPT !.authConfigured = configured])
                    EXCEPT !.running[i].at = "loadFabSetting"])

\* loadFabSetting() resolves, loadContext() sends its message
fabSettingAnswer ==
  \E i \in 1..Len(popup.running) :
    /\ popup.running[i].at = "loadFabSetting"
    /\ PopupStep([popup EXCEPT !.running[i].at = "loadContext"])

\* what the start-up function and the refresh listener do with `ready`
afterLoad(p, fn, ready) ==
  LET lookup == IF p.version = "popup.js" THEN ready
                ELSE IF fn = "refresh" THEN ready /\ p.authConfigured
                ELSE /\ ready
                     /\ p.authConfigured
                     /\ isGerritChangeUrl(p.currentContext.gerritUrl)
                     /\ getEffectiveIssueKey(p) # << >>
      b == beginAction(p, fn, "fetchIssue")
  IN IF lookup
     THEN [b EXCEPT !.p = IF b.waits \/ fn = "start" THEN b.p
                          ELSE setActionBusy(b.p, FALSE)]
     ELSE [p |-> LET q == IF ready /\ p.version # "popup.js"
                          THEN setStatus(p, "warn", Null) ELSE p
                 IN IF fn = "start" THEN q ELSE setActionBusy(q, FALSE),
           waits |-> FALSE,
           task |-> Task(fn, "fetchIssue", Null)]

\* the answer to POPUP_GET_CONTEXT arrives: loadContext() runs on and returns
\* to the start-up function or to the refresh listener
contextAnswer ==
  \E i \in 1..Len(popup.running), reach \in {"ok", "failed", "lastError"} :
    /\ popup.running[i].at = "loadContext"
    /\ LET resp == popupGetContext(popup.page, reach)
           r == loadContext(popup, resp)
           a == afterLoad(r.p, popup.running[i].fn, r.ready)
       IN PopupEvent(
            [a.p EXCEPT !.running = IF a.waits THEN [@ EXCEPT ![i] = a.task]
                                    ELSE without(@, i)],
            Event("loadContext",
                  IF reach = "ok" THEN Str(resp.context.issueKey) ELSE <<reach>>,
                  r.ready, a.waits, NoRequest, Null))

\* the answer to POPUP_GET_ISSUE arrives
issueAnswer ==
  \E i \in 1..Len(popup.running), kind \in {"ok", "failed", "lastError"} :
    /\ popup.running[i].at = "fetchIssue"
    /\ PopupStep([endAction(popup, popup.running[i], [kind |-> kind])
                    EXCEPT !.running = without(@, i)])

\* the service worker handles POPUP_ADD_REMOTE_LINK / POPUP_ADD_COMMENT on the
\* page as it is then, and its answer arrives
addAnswer ==
  \E i \in 1..Len(popup.running), reach \in {"ok", "failed", "lastError"},
     jira \in {"ok", "rejected"} :
    /\ popup.running[i].at \in {"addRemoteLink", "addComment"}
    /\ LET h == IF popup.running[i].at = "addRemoteLink"
                THEN "handlePopupAddRemoteLink" ELSE "handlePopupAddComment"
           r == handlePopupAdd(h, popup.page, popup.running[i].issueKey,
                               reach, jira)
           p == endAction(popup, popup.running[i], r.resp)
       IN PopupEvent(
            [p EXCEPT !.running = without(@, i)],
            Event("add", << >>, FALSE, FALSE, r.request,
                  IF r.resp.kind = "ok" THEN p.status.key ELSE Null))

PopupNext ==
  \/ navigate
  \/ inputListener
  \/ refreshClick
  \/ linkClick
  \/ commentClick
  \/ authStateAnswer
  \/ fabSettingAnswer
  \/ contextAnswer
  \/ issueAnswer
  \/ addAnswer

PopupSpec == PopupInit /\ [][PopupNext]_vars

\* ------------------------------------------------------------------------
\* content_script.js: the floating action button of a Gerrit page, with the
\* stored flag and the messages that switch it
\* ------------------------------------------------------------------------

\* at most this many FAB_ENABLE / FAB_DISABLE messages are in flight
MaxMessages == 3

\* chrome.storage.local's fabEnabled
StoredFlags == {"undefined", "true", "false"}

\* the content script as it is when it has run to its end: the read of
\* initFabFromStorage() is under way and nothing is rendered
Fab(stored) ==
  [phase |-> "loaded",
   stored |-> stored,
   read |-> "pending",            \* then the value read, then "delivered"
   roots |-> 0,                   \* elements with the id FAB_ROOT_ID
   listeners |-> 0,               \* click listeners registered on the document
   fabDocClickHandler |-> FALSE,  \* it is not null
   queue |-> << >>,               \* messages on their way to the content script
   setting |-> stored # "false"]  \* the last setting made, the default at first

renderFab(f) ==
  IF f.roots > 0 THEN f
  ELSE [f EXCEPT !.roots = @ + 1, !.listeners = @ + 1,
                 !.fabDocClickHandler = TRUE]

removeFab(f) ==
  LET g == [f EXCEPT !.roots = IF @ > 0 THEN @ - 1 ELSE @]
  IN IF g.fabDocClickHandler
     THEN [g EXCEPT !.listeners = @ - 1, !.fabDocClickHandler = FALSE]
     ELSE g

applyFabEnabled(f, enabled) == IF enabled THEN renderFab(f) ELSE removeFab(f)

FabInit ==
  /\ MainInit
  /\ retry = NoRetry
  /\ text = NoText
  /\ pure = NoPure
  /\ popup = NoPopup
  /\ fab \in {Fab(stored) : stored \in StoredFlags}

FabAction(f) ==
  /\ fab.phase = "loaded"
  /\ fab' = f
  /\ UNCHANGED <<mainVars, retry, text, pure, popup>>

\* chrome.storage.local serves the read of initFabFromStorage()
storageGet ==
  /\ fab.read = "pending"
  /\ FabAction([fab EXCEPT !.read = fab.stored])

\* the callback of the read runs
initFabFromStorage ==
  /\ fab.read \in StoredFlags
  /\ FabAction([applyFabEnabled(fab, fab.read # "false")
                  EXCEPT !.read = "delivered"])

\* handlePopupSetFabEnabled of the service worker: the flag is stored, and
\* FAB_ENABLE / FAB_DISABLE goes to the tab if it is the active Gerrit tab
\* and sendToTab reaches it
popupSetFabEnabled ==
  \E enabled \in BOOLEAN, reached \in BOOLEAN :
    /\ Len(fab.queue) < MaxMessages
    /\ FabAction([fab EXCEPT
                    !.stored = IF enabled THEN "true" ELSE "false",
                    !.setting = enabled,
                    !.queue = IF reached THEN Append(@, enabled) ELSE @])

\* the message listener gets FAB_ENABLE or FAB_DISABLE
fabMessage ==
  /\ fab.queue # << >>
  /\ FabAction([applyFabEnabled(fab, Head(fab.queue))
                  EXCEPT !.queue = Tail(@)])

FabNext ==
  \/ storageGet
  \/ initFabFromStorage
  \/ popupSetFabEnabled
  \/ fabMessage

FabSpec == FabInit /\ [][FabNext]_vars

\* ------------------------------------------------------------------------
\* Properties
\* ------------------------------------------------------------------------

LinkCommentHandlers == {"handlePopupAddRemoteLink", "handlePopupAddComment"}

\* the action has ended
Done == pc = "Idle" /\ caller # "none"

\* the service-worker handler has returned its result
Returned ==
  /\ handler \in Handlers
  /\ pc = "sendResponse" \/ (trace # << >> /\ trace[Len(trace)] = "sendResponse")

InServiceWorker ==
  pc \notin {"Idle", "sendRuntimeMessage", "fabReceive", "extractInfo",
             "loadCredentials", "postJiraComment"}

Responded == trace # << >> /\ trace[Len(trace)] = "sendResponse"

\* the outcomes shown for the action, progress notices and the issue dialog
\* left out
FinalOutcomes == {i \in 1..Len(outcomes) :
                    outcomes[i].kind \in {"toast", "response"} /\ outcomes[i].type # "info"}

Sends == Count(trace, "sendToTab:ok") + Count(trace, "sendToTab:failed")
Injections == Count(trace, "inject:ok") + Count(trace, "inject:failed")

NormalisedOverride == toUpperCase(trim(Str(arg.key)))

\* the content script has answered EXTRACT_CONTEXT and the answer was looked at
Extracted == Count(trace, "sendToTab:ok") = 1 /\ pc # "safeContext"

\* the URL the context carries: the answer's gerritUrl, else the tab's URL
EffectiveUrl == IF reply.gerritUrl # EmptyUrl THEN reply.gerritUrl ELSE tab.url

OriginAllowlisted(u) ==
  <<u.scheme, u.host, u.port>> \in
    { <<"http", "gerrit.thinkfree.com", "">>, <<"http", "gerrit.thinkfree.com", "80">>,
      <<"https", "gerrit.thinkfree.com", "">>, <<"https", "gerrit.thinkfree.com", "443">> }

KeyAvailable == isValidIssueKey(NormalisedOverride) \/ isValidIssueKey(Str(reply.issueKey))

CredentialsAbsent ==
  storage.jiraEmail \in {"undefined", ""} \/ storage.jiraToken \in {"undefined", ""}

NoJiraWork ==
  /\ requests = << >>
  /\ \A i \in 1..Len(trace) :
       trace[i] \notin {"loadStorageData", "getCredentials", "buildRemoteLinkPayload",
                        "renderTemplate", "ensureCommentMinimum", "textToAdf", "fetch"}

\* C1: every user-triggered action (a Jira handler called from the popup, a
\* FAB handler, handleGerritAction) that has ended has shown exactly one
\* outcome, not counting progress notices.
C1_ExactlyOneOutcome ==
  (/\ Done
   /\ \/ caller = "popup" /\ handler \in JiraHandlers
      \/ caller \in FabHandlers
      \/ handler = "handleGerritAction")
  => Cardinality(FinalOutcomes) = 1

\* C2: no handler promise rejects, every message taken by the service worker
\* is answered with sendResponse, and every started action returns to Idle.
C2_HandlersAlwaysRespond ==
  /\ [](pc \notin {"thrown", "Rejected"})
  /\ ((InServiceWorker /\ ~Responded) ~> Responded)
  /\ ((pc # "Idle") ~> (pc = "Idle"))

C2_Witness ==
  /\ pc = "Idle"
  /\ handler = "handlePopupAddComment"
  /\ Responded
  /\ Count(trace, "inject:failed") = 1
  /\ result = Failure(PageUnreadable)

\* C3: per action at most two sends of EXTRACT_CONTEXT and at most one
\* injection; the injection follows a failed first send, the second send a
\* successful injection; when the injection or the second send fails the
\* handler returns the communication failure, with no storage read, no
\* payload and no request.
C3_OneRecovery ==
  handler \in ContextHandlers =>
    /\ Sends <= 2
    /\ Injections <= 1
    /\ (Sends >= 1 /\ trace[1] = "sendToTab:failed")
         => (pc = "injectContentScripts" \/ Injections = 1)
    /\ Injections = 1 => trace[1] = "sendToTab:failed"
    /\ Count(trace, "inject:ok") = 1 => (pc = "sendToTab2" \/ Sends = 2)
    /\ Sends = 2 => Count(trace, "inject:ok") = 1
    /\ (Count(trace, "inject:failed") = 1 \/ Count(trace, "sendToTab:failed") = 2)
         => /\ Returned
            /\ result = Failure(PageUnreadable)
            /\ NoJiraWork

C3_Witness ==
  /\ pc = "Idle"
  /\ handler = "handlePopupAddRemoteLink"
  /\ trace = <<"sendToTab:failed", "inject:ok", "sendToTab:failed", "sendResponse">>

\* C4: the key of the Jira request of add-link / add-comment is the trimmed,
\* upper-cased override when that is a valid key ('tf-1' and ' tf-1 ' are
\* used as 'TF-1'), whatever the extracted key; otherwise it is the
\* extracted key.
C4_OverridePrecedence ==
  (handler \in LinkCommentHandlers /\ requests # << >>) =>
    /\ isValidIssueKey(NormalisedOverride) => requests[1].key = NormalisedOverride
    /\ ~isValidIssueKey(NormalisedOverride) => requests[1].key = context.issueKey
    /\ arg.key \in {KeyLower, KeyPadded, KeyTF1} => requests[1].key = KeyTF1
    /\ arg.key \in {Null, << >>, KeyBlank, KeyNoHyphen, KeyShort} => requests[1].key = KeyAB2
    /\ (Returned /\ result.ok) => result.issueKey = requests[1].key

C4_Witness ==
  /\ handler = "handlePopupAddComment"
  /\ arg.key = KeyLower
  /\ context.issueKey = KeyAB2
  /\ requests # << >>
  /\ requests[1].key = KeyTF1

\* C5: with an override that is non-empty after trimming and no valid key
\* after upper-casing, add-link / add-comment issue no Jira request and end
\* in a failure.
C5_MalformedOverrideRejected ==
  (/\ handler \in LinkCommentHandlers
   /\ trim(Str(arg.key)) # << >>
   /\ ~isValidIssueKey(NormalisedOverride))
  => /\ requests = << >>
     /\ Returned => ~result.ok

\* C6: once the context is extracted, with no valid key available or a
\* context URL of a foreign origin, the handler returns a failure with no
\* storage read, no payload and no request; the failure is the origin
\* message for a foreign origin and otherwise the missing-key message, and
\* the two differ. handlePopupGetIssue with an invalid key does the same.
C6_ValidationShortCircuit ==
  /\ NeedIssueKey \notin {OriginNotAllowed, PageUrlNotAllowed}
  /\ (handler \in LinkCommentHandlers /\ Extracted
      /\ (~KeyAvailable \/ ~OriginAllowlisted(EffectiveUrl)))
     => /\ NoJiraWork
        /\ Returned \/ (pc = "selectIssueKey" /\ OriginAllowlisted(EffectiveUrl))
        /\ Returned => result = IF ~OriginAllowlisted(EffectiveUrl)
                                THEN Failure(OriginNotAllowed) ELSE Failure(NeedIssueKey)
  /\ (handler \in LinkCommentHandlers /\ Returned /\ ~result.ok /\ Extracted
      /\ KeyAvailable /\ OriginAllowlisted(EffectiveUrl))
     => result.message \notin {NeedIssueKey, OriginNotAllowed, PageUrlNotAllowed}
  /\ (handler = "handlePopupGetIssue" /\ pc # "clientCheckKey"
      /\ InServiceWorker /\ ~isValidIssueKey(trim(Str(arg.key))))
     => /\ NoJiraWork
        /\ result = Failure(NeedIssueKey)

C6_Witness ==
  /\ pc = "Idle"
  /\ handler = "handlePopupAddComment"
  /\ arg.key = KeyNoHyphen
  /\ reply = Reply(KeyLower, GerritHttp)
  /\ result = Failure(NeedIssueKey)
  /\ trace = <<"sendToTab:ok", "sendResponse">>

\* C7: with the stored email or token absent or empty no HTTP request is
\* issued, and a Jira action whose context and key passed validation
\* returns the 'not configured' failure.
C7_NotConfigured ==
  CredentialsAbsent =>
    /\ handler \in JiraHandlers \cup {"handleGerritAction"} => requests = << >>
    /\ (handler \in LinkCommentHandlers /\ Returned /\ Extracted
        /\ KeyAvailable /\ OriginAllowlisted(EffectiveUrl))
       => result = Failure(NotConfigured)
    /\ (handler = "handlePopupGetIssue" /\ Returned
        /\ isValidIssueKey(trim(Str(arg.key))))
       => result = Failure(NotConfigured)

C7_Witness ==
  /\ pc = "Idle"
  /\ handler = "handlePopupAddRemoteLink"
  /\ storage.jiraEmail = "me@x.com"
  /\ storage.jiraToken = ""
  /\ result = Failure(NotConfigured)
  /\ requests = << >>

\* C8: what a handler returns for absent credentials is never what it
\* returns for an HTTP 401 answer, handleTestConnection called with an empty
\* email or token included.
C8_AbsentIsNotAuthFailure ==
  /\ (handler \in JiraHandlers /\ Returned /\ CredentialsAbsent)
     => result.message # mapJiraError(401)
  /\ (handler = "handleTestConnection" /\ Returned
      /\ (arg.email \in {"undefined", ""} \/ arg.token \in {"undefined", ""}))
     => result.status # 401

StepRank(e) ==
  CASE e \in {"sendToTab:ok", "sendToTab:failed", "inject:ok", "inject:failed"} -> 1
    [] e = "getCredentials" -> 3
    [] e \in {"buildRemoteLinkPayload", "renderTemplate", "ensureCommentMinimum",
              "textToAdf"} -> 4
    [] e = "fetch" -> 5
    [] OTHER -> 6

\* C9: the calls of add-link / add-comment occur in the order extraction,
\* credentials, payload, request, report; with absent credentials no
\* template is rendered and no document built.
C9_StepOrder ==
  handler \in LinkCommentHandlers =>
    /\ \A i, j \in 1..Len(trace) :
         (i < j /\ trace[i] # "loadStorageData" /\ trace[j] # "loadStorageData")
           => StepRank(trace[i]) <= StepRank(trace[j])
    /\ CredentialsAbsent =>
         \A i \in 1..Len(trace) : trace[i] \notin {"renderTemplate", "textToAdf"}

SuccessCodes(h) ==
  CASE h = "handlePopupGetIssue" -> {200}
    [] h = "handlePopupAddRemoteLink" -> {200, 201}
    [] OTHER -> {201}

KnownRejection(status) ==
  CASE status = 400 -> <<"bad request (400)", 0>>
    [] status = 401 -> <<"authentication failed (401)", 0>>
    [] status = 403 -> <<"no permission (403)", 0>>
    [] OTHER -> <<"target not found (404)", 0>>

\* C11: for an answer with a non-success status the handler returns the
\* fixed message of the status for 400, 401, 403 and 404 and otherwise a
\* fallback message carrying the number, whatever the body; a result carries
\* fields of the body only as the issue of a successful lookup.
C11_MessageFromStatusAlone ==
  /\ (handler \in JiraHandlers /\ Returned /\ response # NoResponse
      /\ response.status \notin SuccessCodes(handler))
     => /\ ~result.ok
        /\ result.issue = NoIssue
        /\ result.message =
             IF response.status \in {400, 401, 403, 404}
             THEN KnownRejection(response.status)
             ELSE <<"Jira API error: HTTP", response.status>>
  /\ result.issue # NoIssue
     => /\ handler = "handlePopupGetIssue"
        /\ result.ok
        /\ response.status = 200
        /\ result.message = NoMsg
        /\ result.issue = [summary |-> "summary of json", status |-> "status of json",
                           assignee |-> "assignee of json"]
  /\ \A i \in 1..Len(outcomes) :
       \A b \in Bodies : outcomes[i].message[1] # b

C11_Witness ==
  /\ pc = "Idle"
  /\ handler = "handlePopupAddComment"
  /\ response = Response(403, "not json")
  /\ result.message = <<"no permission (403)", 0>>
  /\ outcomes = <<Outcome("response", "error", <<"no permission (403)", 0>>, Null)>>
\* C12: a call resolves at most once; at once when the first extraction has
\* a key; while pending, a poll tick or a mutation notification whose
\* extraction has a key resolves with that key, and a poll tick or the
\* deadline at or after the timeout resolves with the extraction of that
\* moment; a context resolved before the timeout has a key; a pending call
\* is eventually resolved.
C12_ResolvesOnce ==
  /\ [](retry.resolves <= 1 /\ (retry.phase = "resolved" <=> retry.resolves = 1))
  /\ [](retry.first => /\ retry.phase = "resolved"
                       /\ hasIssueKey(retry.value)
                       /\ retry.now = 0 /\ retry.polls = 0 /\ ~retry.done)
  /\ []((retry.phase = "resolved" /\ retry.resolvedAt < retry.timeoutMs)
          => hasIssueKey(retry.value))
  /\ [][(retry.phase = "pending" /\ retry'.phase = "resolved")
          => /\ retry'.value = retry.page
             /\ retry'.resolvedAt = retry.now
             /\ hasIssueKey(retry.page) \/ retry.now >= retry.timeoutMs]_vars
  /\ [][(retry.phase = "pending" /\ (retry'.polls # retry.polls \/ (retry.queued /\ ~retry'.queued))
         /\ hasIssueKey(retry.page))
          => retry'.phase = "resolved"]_vars
  /\ [][(retry.phase = "pending" /\ retry.now >= retry.timeoutMs
         /\ (retry'.polls # retry.polls \/ retry'.deadlineTimer # retry.deadlineTimer))
          => (retry'.phase = "resolved" /\ retry'.value = retry.page)]_vars
  /\ (retry.phase = "pending") ~> (retry.phase = "resolved")

C12_Witness ==
  /\ retry.phase = "resolved"
  /\ retry.timeoutMs = 300
  /\ retry.resolvedAt = 300
  /\ retry.value = Null
  /\ retry.polls = 2

\* C13: whenever the call is resolved, the interval and the timeout are
\* cleared and the observer is disconnected with no notification left;
\* resolve and the teardown run at most once per call.
C13_TeardownOnCompletion ==
  /\ retry.phase = "resolved"
       => /\ ~retry.pollTimer
          /\ ~retry.deadlineTimer
          /\ ~retry.observing
          /\ ~retry.queued
  /\ retry.resolves <= 1
  /\ retry.cleanups <= 1
  /\ retry.done => (retry.cleanups = 1 /\ retry.resolves = 1 /\ retry.phase = "resolved")
  /\ retry.phase = "pending"
       => (retry.pollTimer /\ retry.deadlineTimer /\ retry.observing = retry.root)

C13_Witness ==
  /\ retry.phase = "resolved"
  /\ retry.done
  /\ retry.polls = 1
  /\ retry.timeoutMs = 120
  /\ retry.now = 120
  /\ retry.value = KeyAB2
  /\ retry.cleanups = 1
\* C14: every request carries a key of the issue-key grammar, and a handler
\* given a key outside the grammar returns the invalid-key failure without
\* a request.
C14_RequestKeysValid ==
  /\ \A i \in 1..Len(requests) :
       requests[i].endpoint # "GET /rest/api/3/myself" => isValidIssueKey(requests[i].key)
  /\ (handler = "handlePopupGetIssue" /\ Returned /\ ~isValidIssueKey(trim(Str(arg.key))))
     => (requests = << >> /\ result = Failure(NeedIssueKey))
ThreeNewlines(r) == \E i \in 1..(Len(r) - 2) : r[i] = NL /\ r[i + 1] = NL /\ r[i + 2] = NL

\* C16: what renderTemplate returns neither starts nor ends with whitespace
\* and has no three newlines in a row; the template of {title}, blank line,
\* {body}, blank line, Gerrit: {url} with an empty body renders as the
\* title, one blank line and the Gerrit line.
C16_RenderedIsTidy ==
  text.stage \in {"renderTemplate", "buildCommentAdf"} =>
    /\ text.rendered # << >>
         => /\ text.rendered[1] \notin {" ", NL}
            /\ text.rendered[Len(text.rendered)] \notin {" ", NL}
    /\ ~ThreeNewlines(text.rendered)
    /\ (/\ text.stage = "renderTemplate"
        /\ text.template = ExampleTemplate
        /\ text.v.title = <<"T">>
        /\ text.v.body = << >>
        /\ text.v.url = <<"u">>)
       => text.rendered = <<"T", NL, NL, "G", "e", "r", "r", "i", "t", ":", " ", "u">>

C16_Witness ==
  /\ text.stage = "renderTemplate"
  /\ text.template = ExampleTemplate
  /\ text.v.body = << >>
  /\ text.rendered = <<"T", NL, NL, "G", "e", "r", "r", "i", "t", ":", " ", "u">>

TokenValues(v) ==
  << <<Placeholder.title, Str(v.title)>>, <<Placeholder.body, Str(v.body)>>,
     <<Placeholder.branch, Str(v.branch)>>, <<Placeholder.change_num, Str(v.changeNum)>>,
     <<Placeholder.project, Str(v.project)>>, <<Placeholder.owner, Str(v.owner)>>,
     <<Placeholder.date, Str(v.date)>>, <<Placeholder.url, Str(v.url)>> >>

\* the template with every recognised placeholder replaced by its value as
\* it stands, in one pass from position i on
RECURSIVE substituted(_, _, _)
substituted(template, v, i) ==
  LET tv == TokenValues(v)
      found == {n \in 1..Len(tv) : indexOf(template, tv[n][1], i) # 0}
  IN IF found = {} THEN SubSeq(template, i, Len(template))
     ELSE LET n == CHOOSE a \in found :
                     \A b \in found :
                       indexOf(template, tv[a][1], i) <= indexOf(template, tv[b][1], i)
              m == indexOf(template, tv[n][1], i)
          IN SubSeq(template, i, m - 1) \o tv[n][2]
             \o substituted(template, v, m + Len(tv[n][1]))

\* C17: what renderTemplate returns is the template with every recognised
\* placeholder replaced by exactly its value and all other text kept, then
\* blank lines collapsed and the ends trimmed.
C17_PlaceholdersReplacedExactly ==
  text.stage = "renderTemplate"
    => text.rendered = trim(collapseNewlines(substituted(text.template, text.v, 1)))

\* C18: the text buildCommentAdf hands to textToAdf contains the title and,
\* when it is not empty, the URL; ensureCommentMinimum applied to it again
\* returns it unchanged.
C18_MinimumContent ==
  text.stage = "buildCommentAdf" =>
    /\ includes(text.safeText, commentVars(text.v).title)
    /\ Str(text.v.url) # << >> => includes(text.safeText, text.v.url)
    /\ ensureCommentMinimum(text.safeText, commentVars(text.v)) = text.safeText

\* the text textToAdf was given
DocInput == IF text.stage = "textToAdf" THEN text.template ELSE text.safeText

EmptyDoc == [type |-> "doc", version |-> 1,
             content |-> <<[type |-> "paragraph",
                            content |-> <<[type |-> "text", text |-> << >>,
                                           link |-> Null]>>]>>]

\* C19: the document textToAdf returns has at least one paragraph and every
\* paragraph has at least one node; for a text made of nothing, or of two
\* or more newlines only, it is one paragraph holding one empty text node,
\* and for no other text.
C19_DocumentNeverEmpty ==
  text.stage \in {"textToAdf", "buildCommentAdf"} =>
    /\ text.doc.type = "doc"
    /\ Len(text.doc.content) >= 1
    /\ \A i \in 1..Len(text.doc.content) :
         /\ text.doc.content[i].type = "paragraph"
         /\ Len(text.doc.content[i].content) >= 1
    /\ ((\A i \in 1..Len(DocInput) : DocInput[i] = NL) /\ Len(DocInput) # 1)
         <=> text.doc = EmptyDoc

C19_Witness ==
  /\ text.stage = "textToAdf"
  /\ text.template = << >>
  /\ text.v.url = <<"u">>
  /\ Len(text.doc.content) = 1
  /\ text.doc.content[1].content = <<[type |-> "text", text |-> << >>, link |-> Null]>>

\* occurrences of url in line from position i on, left to right, not
\* overlapping
RECURSIVE occurrences(_, _, _)
occurrences(line, url, i) ==
  LET m == indexOf(line, url, i)
  IN IF url = << >> \/ m = 0 THEN 0 ELSE 1 + occurrences(line, url, m + Len(url))

RECURSIVE ConcatText(_)
ConcatText(nodes) ==
  IF nodes = << >> THEN << >> ELSE Head(nodes).text \o ConcatText(Tail(nodes))

LinkRunsOf(nodes) == {i \in 1..Len(nodes) : nodes[i].link # Null}

\* k link runs of the URL, non-empty plain runs between them, the line
\* reproduced
RunsMatchLine(nodes, line, url) ==
  /\ Cardinality(LinkRunsOf(nodes)) = occurrences(line, url, 1)
  /\ \A i \in 1..Len(nodes) :
       /\ nodes[i].type = "text"
       /\ nodes[i].link # Null => (nodes[i].text = url /\ nodes[i].link = url)
       /\ nodes[i].link = Null => nodes[i].text # << >>
  /\ \A i \in 1..(Len(nodes) - 1) : nodes[i].link # Null \/ nodes[i + 1].link # Null
  /\ ConcatText(nodes) = line

\* C20 as stated: as RunsMatchLine, and a line without the URL, or any line
\* with an empty URL, is one plain run.
C20_LinkRuns ==
  text.stage = "inlineNodesForLine" =>
    /\ RunsMatchLine(text.nodes, text.template, text.v.url)
    /\ occurrences(text.template, text.v.url, 1) = 0
         => text.nodes = <<[type |-> "text", text |-> text.template, link |-> Null]>>

\* C20 amended: as RunsMatchLine, and a line without the URL, or any line
\* with an empty URL, is one plain run when it is not empty and no run when
\* it is empty.
C20_LinkRunsOfNonEmptyLine ==
  text.stage = "inlineNodesForLine" =>
    /\ RunsMatchLine(text.nodes, text.template, text.v.url)
    /\ occurrences(text.template, text.v.url, 1) = 0
         => text.nodes = IF text.template = << >> THEN << >>
                         ELSE <<[type |-> "text", text |-> text.template, link |-> Null]>>

C20_Witness ==
  /\ text.stage = "inlineNodesForLine"
  /\ text.template = <<"u", "a", "u">>
  /\ text.v.url = <<"u">>
  /\ text.nodes = <<[type |-> "text", text |-> <<"u">>, link |-> <<"u">>],
                    [type |-> "text", text |-> <<"a">>, link |-> Null],
                    [type |-> "text", text |-> <<"u">>, link |-> <<"u">>]>>
\* the issue-key grammar read one character at a time: 0 nothing read, 1 the
\* first capital, 2 capitals or digits after it, 3 the hyphen, 4 digits after
\* the hyphen, 5 no key
RECURSIVE keyScan(_, _, _)
keyScan(str, i, q) ==
  IF i > Len(str) THEN q
  ELSE LET c == str[i]
           next == CASE q = 0 /\ c \in UpperLetters -> 1
                     [] q \in {1, 2} /\ c \in UpperLetters \cup Digits -> 2
                     [] q = 2 /\ c = "-" -> 3
                     [] q \in {3, 4} /\ c \in Digits -> 4
                     [] OTHER -> 5
       IN keyScan(str, i + 1, next)

\* C21: isValidIssueKey answers true exactly for a string made of one
\* capital letter, one or more capital letters or digits, a hyphen and one
\* or more digits, and false for every value that is not a string.
C21_IssueKeyGrammar ==
  (pure.fn \in {"isValidIssueKey", "isValidIssueKey_popup"}) =>
    (pure.out <=> (pure.in.kind = "string" /\ keyScan(pure.in.s, 1, 0) = 4))
\* the text reads: http or https, ":", slashes, user information ending in
\* "@" or none, the Gerrit host, the scheme's own port or none, then the end
\* or a slash
ReadsAsGerritOrigin(t) ==
  /\ Len(t) >= 3
  /\ t[1] \in {"http", "https"}
  /\ t[2] = ":"
  /\ \E a \in 3..Len(t) : \E k \in a..Len(t) :
       /\ \A i \in 3..(a - 1) : t[i] = "/"
       /\ k = a \/ (t[k - 1] = "@" /\ \A i \in a..(k - 1) : t[i] # "/")
       /\ t[k] = GerritHost
       /\ LET rest == SubSeq(t, k + 1, Len(t))
              e == firstOf(rest, {"/"}, 1) - 1
              authorityRest == SubSeq(rest, 1, e)
          IN authorityRest \in
               {<< >>, <<":">>, <<":", IF t[1] = "http" THEN "80" ELSE "443">>}

\* C22: isGerritTab and isAllowedChangeUrl answer true only for a URL whose
\* scheme, host and port are those of an allowlisted origin; they answer
\* false for a text that is no URL, for a foreign host with an allowlisted
\* origin in its path, for another port and for a longer or a look-alike
\* host name.
C22_OriginExactlyAllowlisted ==
  (pure.fn \in {"isGerritTab", "isAllowedChangeUrl"}) =>
    /\ pure.out <=> ReadsAsGerritOrigin(pure.in)
    /\ pure.in \in
         { <<"https", ":", "/", "/", "evil.com", "/", "http", ":", "/", "/", GerritHost>>,
           <<"http", ":", "/", "/", GerritHost, ".", "evil.com", "/">>,
           <<"http", ":", "/", "/", "sub", ".", GerritHost, "/">>,
           <<"http", ":", "/", "/", GerritHost, "@", "evil.com", "/">>,
           <<"http", ":", "/", "/", GerritHost, ":", "8080">>,
           <<"http", ":", "/", "/", GerritHost, ":", "443", "/", "c">>,
           <<"undefined">>, <<"null">>, << >>, <<GerritHost>> }
         => ~pure.out

C22_Witness ==
  /\ pure.fn = "isAllowedChangeUrl"
  /\ pure.in = <<"https", ":", "/", "/", "evil.com", "/", "http", ":", "/", "/", GerritHost>>
  /\ pure.out = FALSE
\* the key of the first jira: tag of the commit message, in capitals
TagKey(page) ==
  LET k == matchJiraTag(page.commit)
  IN IF k = 0 THEN Null ELSE normalizeIssueKey(SubSeq(page.commit, k, k + 2))

\* the first bare key of a text, in capitals
BareKey(t) ==
  LET k == matchIssueKey(t, TRUE)
  IN IF k = 0 THEN Null ELSE normalizeIssueKey(SubSeq(t, k, k + 2))

\* C23: with a jira: tag in the commit message and another bare key in the
\* subject, extractIssueKey returns the key of the tag; without a tag it
\* returns a bare key of the subject or the title, and null when there is
\* none.
C23_TagBeforeSubject ==
  (pure.fn \in {"extractIssueKey", "extractIssueKey_old"}) =>
    LET page == pure.in
        out == IF pure.out = Null THEN Null ELSE normalizeIssueKey(pure.out)
        inSubject == BareKey(extractSubject(page))
        inTitle == BareKey(page.title)
    IN /\ (TagKey(page) # Null /\ inSubject # Null /\ inSubject # TagKey(page))
            => out = TagKey(page)
       /\ (TagKey(page) = Null /\ out # Null) => out \in {inSubject, inTitle}
       /\ (TagKey(page) = Null /\ inSubject = Null /\ inTitle = Null) => out = Null

\* C25: the body extractCommitBody returns holds no jira: line, no three
\* newlines in a row and no blank at its ends, and extractChangeId returns
\* the token of 41 characters or the empty string; for the commit text
\* Fix login. / jira: TF-9 / Change-Id: I and 40 hexadecimal digits the body
\* is Fix login. and the Change-Id is the token.
C25_BodyAndChangeId ==
  /\ pure.fn = "extractCommitBody" =>
       /\ \A i \in 1..Len(splitLines(pure.out)) : ~isJiraLine(splitLines(pure.out)[i])
       /\ ~ThreeNewlines(pure.out)
       /\ trim(pure.out) = pure.out
       /\ pure.in.commit = ExampleCommit => pure.out = <<"Fix", " ", "login", ".">>
  /\ pure.fn = "extractChangeId" =>
       /\ pure.out \in {<< >>, <<ChangeIdToken>>}
       /\ pure.in.commit = ExampleCommit => pure.out = <<ChangeIdToken>>

\* C26: on a page without a subject element and with the title
\* TF-9: Fix login . Gerrit Code Review, extractSubject returns Fix login
\* and extractIssueKey returns TF-9.
C26_TitleFallback ==
  (pure.fn \in {"extractSubject", "extractIssueKey"}
     /\ pure.in.subject = << >> /\ pure.in.title = ExampleTitle) =>
    /\ pure.fn = "extractSubject" => pure.out = <<"Fix", " ", "login">>
    /\ pure.fn = "extractIssueKey" => pure.out = <<"TF", "-", "9">>
\* the answer holds nothing for the field: it is undefined, null or ""
Missing(answer, name) ==
  field(answer, name) \in {JsUndefined, JsNull, JsString(<< >>)}

\* the parts of C24 that hold for all nine fields
FieldsDefined(answer, sc) ==
  /\ DOMAIN sc = TextFields \cup {"issueKey", "subject", "gerritUrl"}
  /\ \/ sc.issueKey = JsNull
     \/ sc.issueKey.kind = "string" /\ keyScan(sc.issueKey.s, 1, 0) = 4
  /\ \A name \in DOMAIN sc \ {"issueKey"} : sc[name].kind = "string"
  /\ \A name \in TextFields \cup {"subject"} :
       /\ Missing(answer, name) => sc[name].s = << >>
       /\ trim(sc[name].s) = sc[name].s \/ name = "subject"
  /\ Len(sc.subject.s) <= SubjectLimit

\* C24 as stated: the context handed on has nine fields, issueKey is null or
\* a string of the key grammar, every other field is a string, and a field
\* for which the answer holds nothing is the empty string.
C24_NineFieldsDefined ==
  (pure.fn = "safeContext" /\ pure.out.ok) =>
    /\ FieldsDefined(pure.in, pure.out.context)
    /\ Missing(pure.in, "gerritUrl") => pure.out.context.gerritUrl.s = << >>

\* C24 amended: as above, but a gerritUrl for which the answer holds nothing
\* is the URL of the tab.
C24_NineFieldsDefinedUrlFromTab ==
  (pure.fn = "safeContext" /\ pure.out.ok) =>
    /\ FieldsDefined(pure.in, pure.out.context)
    /\ Missing(pure.in, "gerritUrl") => pure.out.context.gerritUrl.s = TabUrlText

C24_Witness ==
  /\ pure.fn = "safeContext"
  /\ pure.out.ok
  /\ pure.in.kind = "object"
  /\ pure.in.fields.issueKey = JsArray(<<KeyTF1>>)
  /\ pure.in.fields.subject = JsNumber(<<"7">>)
  /\ pure.in.fields.branch = JsObject
  /\ pure.in.fields.gerritUrl = JsUndefined
  /\ pure.out.context.issueKey = JsNull
  /\ pure.out.context.subject = JsString(<<"7">>)

\* the link and comment actions that have just ended with a Jira request,
\* the issue key input left to the popup
AddEnded == popup.last.event = "add" /\ popup.last.request # NoRequest

\* C27: every add-link and add-comment action works on the page as it is at
\* the time of the action and on nothing cached: the Jira request carries the
\* key and the URL the page has then, and the key named in the popup's
\* success status is the key of the request.
C27_ActionUsesFreshContext ==
  (popup.version \in PopupVersions /\ AddEnded /\ ~popup.typed) =>
    /\ popup.last.request.key = popup.last.request.pageKey
    /\ popup.last.request.url = popup.last.request.pageUrl
    /\ popup.last.named # Null => popup.last.named = popup.last.request.key

\* the asynchronous functions started by a click that have not ended
InFlight == SelectSeq(popup.running, LAMBDA t : t.fn # "start")

\* C28: while an action started from the popup is in flight the refresh,
\* link and comment buttons are all disabled and no second action is in
\* flight, however the start-up load interleaves with the clicks; when
\* nothing is in flight the refresh button is enabled and the link and
\* comment buttons are enabled exactly if there is a current issue key.
C28_ButtonsBusyWhileInFlight ==
  popup.version \in PopupVersions =>
    /\ Len(InFlight) <= 1
    /\ Len(InFlight) = 1 =>
         popup.btnRefresh /\ popup.btnLink /\ popup.btnComment
    /\ popup.running = << >> =>
         /\ ~popup.btnRefresh
         /\ popup.btnLink = (actionKey(popup) = << >>)
         /\ popup.btnComment = (actionKey(popup) = << >>)

\* C29: loadContext() of popup.js returns true on an ok answer whose context
\* has an issue key, with currentContext holding that context and the issue
\* lookup following; on every other answer it returns false, and it clears
\* currentContext when the answer is not ok or never comes.
C29_LoadContextReady ==
  (popup.version = "popup.js" /\ popup.last.event = "loadContext") =>
    IF isValidIssueKey(popup.last.resp)
    THEN /\ popup.last.ready
         /\ popup.last.lookup
         /\ popup.currentContext.set
         /\ popup.currentContext.issueKey = popup.last.resp
         /\ actionKey(popup) = popup.last.resp
    ELSE /\ ~popup.last.ready
         /\ ~popup.last.lookup
         /\ popup.last.resp # << >> => ~popup.currentContext.set

\* the read of initFabFromStorage() has been delivered and no message is on
\* its way
FabSettled == fab.read = "delivered" /\ fab.queue = << >>

\* C30: after any FAB_ENABLE and FAB_DISABLE messages, in any order with the
\* callback of the initial storage read, there is at most one FAB root, the
\* document click listener is registered exactly when the root exists, and
\* the root exists exactly when the last setting made was enabled.
C30_FabFollowsSetting ==
  fab.phase = "loaded" =>
    /\ fab.roots <= 1
    /\ fab.listeners = fab.roots
    /\ fab.fabDocClickHandler = (fab.roots = 1)
    /\ FabSettled => (fab.roots = 1) = fab.setting

====
